---- MODULE Spec2Model ----
(***************************************************************************)
(* A model of the CSV ingestion engine of MeteoIO (plugins/CsvIO.cc):      *)
(* the per-file descriptor (CsvParameters / CsvDateTime), the date         *)
(* resolver (parseDate, parseJdnDate, getFixedYear), the layout probe of   *)
(* setFile, the position index and the row pipeline of readCSVFile,        *)
(* driven by readMeteoData.                                                *)
(*                                                                         *)
(* Conventions.  A token is a sequence of one-character strings; a line is *)
(* a sequence of tokens (the line after readLineToVec); a file is a        *)
(* sequence of lines, each ended by the end-of-line character.  A stream   *)
(* position is the number of lines before it, so tellg() after getline     *)
(* returned line k is k.  Column indices are 1-based and 0 stands for      *)
(* IOUtils::npos.  A Date is a number of seconds since 2000-01-01T00:00.   *)
(* A measurement is a fixed-point number with Scale units per unit.        *)
(***************************************************************************)
EXTENDS Integers, Sequences, FiniteSets, TLC

VARIABLES cfg, file, instants, csvparam, indexer_map, vecMeteo, status, call, prev

vars == <<cfg, file, instants, csvparam, indexer_map, vecMeteo, status, call, prev>>

(***************************************************************************)
(* Bounds of the model.                                                    *)
(***************************************************************************)
\* longest data section of a file, in lines
MaxRows == 3
\* number of distinct days the timestamps of an indexed file are drawn from
MaxTime == 3
\* readMeteoData calls in one behaviour
MaxCalls == 2
\* rows of a file whose rows are drawn from the malformed and special kinds
MaxOddRows == 2

(***************************************************************************)
(* Numbers and sentinels.                                                  *)
(***************************************************************************)
\* fixed-point resolution of a measurement: 1/100
Scale == 10 * 10
\* IOUtils::nodata, as a fixed-point measurement
nodata == 0 - (999 * Scale)
\* IOUtils::inodata
inodata == 0 - 999
\* seconds in a day
DayLen == 24 * 60 * 60
\* static_cast<streampos>(-1)
NoPos == 0 - 1

(***************************************************************************)
(* IOUtils::convertString for numbers: an optional sign and digits.        *)
(***************************************************************************)
Digits == <<"0", "1", "2", "3", "4", "5", "6", "7", "8", "9">>

IsDigit(c) == \E d \in 1..10 : Digits[d] = c

DigitVal(c) == (CHOOSE d \in 1..10 : Digits[d] = c) - 1

RECURSIVE digitsValue(_, _)
digitsValue(s, acc) ==
  IF s = <<>> THEN acc ELSE digitsValue(Tail(s), acc * 10 + DigitVal(Head(s)))

convertString(tok) ==
  LET neg  == tok # <<>> /\ Head(tok) = "-"
      body == IF neg THEN Tail(tok) ELSE tok
  IN IF body # <<>> /\ \A i \in 1..Len(body) : IsDigit(body[i])
       THEN [ok |-> TRUE, v |-> IF neg THEN 0 - digitsValue(body, 0) ELSE digitsValue(body, 0)]
       ELSE [ok |-> FALSE, v |-> 0]

(***************************************************************************)
(* The Date class: calendar to minutes since 2000-01-01T00:00.             *)
(***************************************************************************)
leapsUpTo(y) == (y \div 4) - (y \div 100) + (y \div 400)

isLeapYear(y) == (y % 4 = 0 /\ y % 100 # 0) \/ y % 400 = 0

\* days from 2000-01-01 to the first of January of year y
daysBeforeYear(y) == 365 * (y - 2000) + leapsUpTo(y - 1) - leapsUpTo(1999)

daysBeforeMonth(y, m) ==
  LET cum == <<0, 31, 59, 90, 120, 151, 181, 212, 243, 273, 304, 334>>
  IN cum[m] + (IF m > 2 /\ isLeapYear(y) THEN 1 ELSE 0)

\* Date(year, jdn, tz): jdn 1 is the first of January; secs is the day fraction
DateYearJdn(year, jdn, secs) == (daysBeforeYear(year) + jdn - 1) * DayLen + secs

\* Date(year, month, day, hour, minute, seconds, tz)
DateYMD(year, month, day, hour, minute, seconds) ==
  (daysBeforeYear(year) + daysBeforeMonth(year, month) + day - 1) * DayLen
  + (hour * 60 + minute) * 60 + seconds

\* Date::setModifiedJulianDate: MJD 51544 is 2000-01-01T00:00
DateMJD(value) == (value - 51544) * DayLen

(***************************************************************************)
(* CsvDateTime::getFixedYear, both overloads: the year for a row without a *)
(* year, and the auto_wrap flag it leaves behind.                          *)
(***************************************************************************)
\* a variant that wraps the days before the first of October instead
getFixedYearJdnEarlyWraps(dc, i_jdn) ==
  LET wrap == IF i_jdn >= 273 THEN FALSE ELSE dc.auto_wrap
  IN [year |-> IF wrap THEN dc.year_cst - 1 ELSE dc.year_cst, auto_wrap |-> wrap]

getFixedYearJdn(dc, i_jdn) ==
  LET wrap == IF i_jdn < 273 THEN FALSE ELSE dc.auto_wrap
  IN [year |-> IF wrap THEN dc.year_cst - 1 ELSE dc.year_cst, auto_wrap |-> wrap]

getFixedYearMonth(dc, i_month) ==
  LET wrap == IF i_month < 10 THEN FALSE ELSE dc.auto_wrap
  IN [year |-> IF wrap THEN dc.year_cst - 1 ELSE dc.year_cst, auto_wrap |-> wrap]

(***************************************************************************)
(* CsvParameters::parseDateComponent: an absent column reads as 0.         *)
(***************************************************************************)
parseDateComponent(vecFields, idx) ==
  IF idx = 0 THEN [ok |-> TRUE, v |-> 0] ELSE convertString(vecFields[idx])

Undef(wrap) == [ok |-> FALSE, t |-> 0, auto_wrap |-> wrap]

Defined(t, wrap) == [ok |-> TRUE, t |-> t, auto_wrap |-> wrap]

\* the year of a row: the year column or, when it reads 0 and a fallback
\* year is configured, getFixedYear on the julian day / on the month
fixedYear(dc, year, byJdn, key) ==
  IF year.v = 0 /\ dc.year_cst # inodata
    THEN IF byJdn THEN getFixedYearJdn(dc, key.v) ELSE getFixedYearMonth(dc, key.v)
    ELSE [year |-> year.v, auto_wrap |-> dc.auto_wrap]

(***************************************************************************)
(* sscanf over a compiled template: literals, blanks and the conversions   *)
(* %4f, %2f, %f (an unsigned whole number of at most 4, 2 or any number of *)
(* digits) and %32s (a word).  The result is the sequence of the values    *)
(* assigned before the first mismatch.                                     *)
(***************************************************************************)
RECURSIVE skipBlanks(_)
skipBlanks(str) == IF str # <<>> /\ Head(str) = " " THEN skipBlanks(Tail(str)) ELSE str

\* the digits at the start of str, at most width of them
RECURSIVE digitsRun(_, _)
digitsRun(str, width) ==
  IF str = <<>> \/ width = 0 \/ ~IsDigit(Head(str)) THEN <<>>
  ELSE <<Head(str)>> \o digitsRun(Tail(str), width - 1)

\* the characters at the start of str up to the first blank, at most width of them
RECURSIVE wordRun(_, _)
wordRun(str, width) ==
  IF str = <<>> \/ width = 0 \/ Head(str) = " " THEN <<>>
  ELSE <<Head(str)>> \o wordRun(Tail(str), width - 1)

\* the field width of a conversion, the length of the input when none is given
fieldWidth(format, str) ==
  IF digitsRun(format, Len(format)) = <<>> THEN Len(str)
  ELSE digitsValue(digitsRun(format, Len(format)), 0)

RECURSIVE sscanfFrom(_, _, _)
\* a conversion read the characters run, which stand for value
converted(str, format, read, run, value) ==
  IF run = <<>> THEN read
  ELSE sscanfFrom(SubSeq(str, Len(run) + 1, Len(str)), Tail(format), Append(read, value))

\* format starts with the letter of the conversion, str with no blank
conversion(str, format, read, width) ==
  IF Head(format) = "f"
    THEN converted(str, format, read, digitsRun(str, width),
                   digitsValue(digitsRun(str, width), 0))
    ELSE converted(str, format, read, wordRun(str, width), wordRun(str, width))

sscanfFrom(str, format, read) ==
  IF format = <<>> THEN read
  ELSE IF Head(format) = " " THEN sscanfFrom(skipBlanks(str), Tail(format), read)
  ELSE IF Head(format) = "%"
    THEN conversion(skipBlanks(str),
                    SubSeq(format, Len(digitsRun(Tail(format), Len(format))) + 2, Len(format)),
                    read, fieldWidth(Tail(format), skipBlanks(str)))
  ELSE IF str # <<>> /\ Head(str) = Head(format)
    THEN sscanfFrom(Tail(str), Tail(format), read)
  ELSE read

sscanf(str, format) == sscanfFrom(str, format, <<>>)

(***************************************************************************)
(* CsvParameters::parseDate(date_str, time_str) and createDate: the date   *)
(* and time strings of a row, read through the compiled templates.         *)
(***************************************************************************)
\* Date::parseTimeZone: "Z", or a sign and the hours, as seconds east of GMT
parseTimeZone(rest) ==
  IF Len(rest) >= 3 /\ rest[1] \in {"+", "-"} /\ IsDigit(rest[2]) /\ IsDigit(rest[3])
    THEN (IF rest[1] = "-" THEN 0 - 1 ELSE 1) * digitsValue(SubSeq(rest, 2, 3), 0) * 3600
    ELSE 0

\* a variant that stores the values in the order they are read
assignedInReadingOrder(args, idx, offset, read, n) ==
  [a \in DOMAIN args |->
     IF a - offset + 1 \in 1..n /\ a - offset + 1 <= Len(read)
       THEN read[a - offset + 1] ELSE args[a]]

\* args[idx[k] + offset] = the k-th value read, for the first n values
assigned(args, idx, offset, read, n) ==
  [a \in DOMAIN args |->
     IF \E k \in 1..n : k <= Len(read) /\ idx[k] + offset = a
       THEN read[CHOOSE k \in 1..n : k <= Len(read) /\ idx[k] + offset = a]
       ELSE args[a]]

\* the word read after the n numbers, when there is one
restOf(read, n, rest) == IF Len(read) > n THEN read[n + 1] ELSE rest

\* createDate: the date of the six arguments in the time zone tz
createDate(args, tz, wrap) ==
  IF args[1] \notin 1..12 \/ args[2] \notin 1..31 THEN Undef(wrap)
  ELSE Defined(DateYMD(args[0], args[1], args[2], args[3], args[4], args[5]) - tz, wrap)

\* the time string, when a time template was compiled
timeStringRead(p, args, rest, read, n) ==
  IF Len(read) < n THEN Undef(p.date_cols.auto_wrap)
  ELSE createDate(assigned(args, p.time_idx, 3, read, n),
                  IF p.has_tz THEN parseTimeZone(restOf(read, n, rest)) ELSE 0,
                  p.date_cols.auto_wrap)

\* the date string was read into read; n is the number of fields of its template
dateStringRead(p, time_str, read, n) ==
  IF n \notin 3..6 \/ Len(read) < n THEN Undef(p.date_cols.auto_wrap)
  ELSE IF p.time_idx # <<>>
    THEN timeStringRead(p, assigned([a \in 0..5 |-> 0], p.datetime_idx, 0, read, n),
                        restOf(read, n, <<>>), sscanf(time_str, p.time_format),
                        Len(p.time_idx))
  ELSE createDate(assigned([a \in 0..5 |-> 0], p.datetime_idx, 0, read, n),
                  IF p.has_tz THEN parseTimeZone(restOf(read, n, <<>>)) ELSE 0,
                  p.date_cols.auto_wrap)

parseDateStrings(p, date_str, time_str) ==
  dateStringRead(p, time_str, sscanf(date_str, p.datetime_format), Len(p.datetime_idx))

(***************************************************************************)
(* CsvParameters::parseJdnDate: year + julian day, with the time as a      *)
(* string, as NTIME, as hours, minutes and seconds columns, or none.       *)
(***************************************************************************)
\* the time column read through the compiled time template
jdnTimeRead(p, jdn, fix, read, n) ==
  IF n \notin 1..3 \/ Len(read) < n THEN Undef(fix.auto_wrap)
  ELSE Defined(DateYearJdn(fix.year, jdn.v,
                 (assigned([a \in 0..2 |-> 0], p.time_idx, 0, read, n)[0] * 60
                  + assigned([a \in 0..2 |-> 0], p.time_idx, 0, read, n)[1]) * 60
                 + assigned([a \in 0..2 |-> 0], p.time_idx, 0, read, n)[2])
               - (IF p.has_tz THEN parseTimeZone(restOf(read, n, <<>>)) ELSE 0),
               fix.auto_wrap)

jdnTimeString(p, vecFields, jdn, fix) ==
  IF p.date_cols.time_str = 0 THEN Undef(fix.auto_wrap)
  ELSE jdnTimeRead(p, jdn, fix, sscanf(vecFields[p.date_cols.time_str], p.time_format),
                   Len(p.time_idx))

\* "952" for 09:52
jdnNumericalTime(jdn, fix, time) ==
  IF ~time.ok THEN Undef(fix.auto_wrap)
  ELSE Defined(DateYearJdn(fix.year, jdn.v,
                 ((time.v \div 100) * 60 + (time.v - (time.v \div 100) * 100)) * 60),
               fix.auto_wrap)

jdnHoursMinutes(jdn, fix, hours, minutes, seconds) ==
  IF ~hours.ok \/ ~minutes.ok \/ ~seconds.ok THEN Undef(fix.auto_wrap)
  ELSE Defined(DateYearJdn(fix.year, jdn.v, (hours.v * 60 + minutes.v) * 60 + seconds.v),
               fix.auto_wrap)

jdnTime(p, vecFields, jdn, fix) ==
  IF p.time_idx # <<>> THEN jdnTimeString(p, vecFields, jdn, fix)
  ELSE IF p.date_cols.time # 0
    THEN jdnNumericalTime(jdn, fix, parseDateComponent(vecFields, p.date_cols.time))
  ELSE IF p.date_cols.hours # 0
    THEN jdnHoursMinutes(jdn, fix, parseDateComponent(vecFields, p.date_cols.hours),
                         parseDateComponent(vecFields, p.date_cols.minutes),
                         parseDateComponent(vecFields, p.date_cols.seconds))
  ELSE Defined(DateYearJdn(fix.year, jdn.v, 0), fix.auto_wrap)

jdnYear(p, vecFields, jdn, year) ==
  IF ~jdn.ok \/ ~year.ok THEN Undef(p.date_cols.auto_wrap)
  ELSE jdnTime(p, vecFields, jdn, fixedYear(p.date_cols, year, TRUE, jdn))

parseJdnDate(p, vecFields) ==
  jdnYear(p, vecFields, parseDateComponent(vecFields, p.date_cols.jdn),
          parseDateComponent(vecFields, p.date_cols.year))

(***************************************************************************)
(* CsvParameters::parseDate(vecFields): the dispatch over the date         *)
(* representations.  The result carries the auto_wrap flag of the          *)
(* descriptor after the call.                                              *)
(***************************************************************************)
componentsDate(fix, month, day, hour, minute, seconds) ==
  IF ~day.ok \/ ~hour.ok \/ ~minute.ok \/ ~seconds.ok THEN Undef(fix.auto_wrap)
  ELSE IF month.v \notin 1..12 \/ day.v \notin 1..31 THEN Undef(fix.auto_wrap)
  ELSE Defined(DateYMD(fix.year, month.v, day.v, hour.v, minute.v, seconds.v),
               fix.auto_wrap)

componentsYear(dc, vecFields, month, year) ==
  IF ~month.ok \/ ~year.ok THEN Undef(dc.auto_wrap)
  ELSE componentsDate(fixedYear(dc, year, FALSE, month), month,
                      parseDateComponent(vecFields, dc.day),
                      parseDateComponent(vecFields, dc.hours),
                      parseDateComponent(vecFields, dc.minutes),
                      parseDateComponent(vecFields, dc.seconds))

\* parseDate(value_str, format) for the MJULIAN representation
decimalDate(dc, value) ==
  IF ~value.ok THEN Undef(dc.auto_wrap) ELSE Defined(DateMJD(value.v), dc.auto_wrap)

parseDate(p, vecFields) ==
  IF p.dt_as_components
    THEN IF p.dt_as_year_and_jdn THEN parseJdnDate(p, vecFields)
         ELSE componentsYear(p.date_cols, vecFields,
                             parseDateComponent(vecFields, p.date_cols.month),
                             parseDateComponent(vecFields, p.date_cols.year))
    ELSE IF p.dt_as_decimal
      THEN decimalDate(p.date_cols, convertString(vecFields[p.date_cols.decimal_date]))
    ELSE parseDateStrings(p, vecFields[p.date_cols.date_str], vecFields[p.date_cols.time_str])

(***************************************************************************)
(* FileIndexer (FileUtils): the sparse index of one file, a sequence of    *)
(* (date, pos) entries kept sorted by date.                                *)
(***************************************************************************)
\* the offset of the last entry at or before i_date, or -1
getIndex(index, i_date) ==
  LET found == {i \in 1..Len(index) : index[i].date <= i_date}
  IN IF found = {} THEN NoPos
     ELSE index[CHOOSE i \in found : \A j \in found : j <= i].pos

\* insert (i_date, i_pos) at its place; a date equal to the last one is dropped
setIndex(index, i_date, i_pos) ==
  LET elem == [date |-> i_date, pos |-> i_pos]
      k    == Cardinality({i \in 1..Len(index) : index[i].date <= i_date})
  IN IF index = <<>> THEN <<elem>>
     ELSE IF index[Len(index)].date < i_date THEN Append(index, elem)
     ELSE IF index[Len(index)].date # i_date
       THEN SubSeq(index, 1, k) \o <<elem>> \o SubSeq(index, k + 1, Len(index))
     ELSE index

(***************************************************************************)
(* The row pipeline of CsvIO::readCSVFile.                                 *)
(***************************************************************************)
\* CsvIO::streampos_every_n_lines (2000 in the source), scaled down so that
\* a file of a few lines crosses the cadence several times
streampos_every_n_lines == 2

Quote(tok, q) == <<q>> \o tok \o <<q>>

NAN == <<"N", "A", "N">>

NULL == <<"N", "U", "L", "L">>

\* the names of the columns outside the skip set
dataFields(p) == {p.csv_fields[i] : i \in {j \in 1..Len(p.csv_fields) : j \notin p.skip_fields}}

\* a variant that makes a parameter of every column
createTemplateEveryColumn(p) == [n \in {p.csv_fields[i] : i \in 1..Len(p.csv_fields)} |-> nodata]

\* CsvIO::createTemplate: every parameter of the template starts at nodata
createTemplate(p) == [n \in dataFields(p) |-> nodata]

\* tmp *= units_multiplier[ii], when declared and tmp is not nodata
applyMultiplier(p, ii, tmp) ==
  IF p.units_multiplier # <<>> /\ tmp # nodata
    THEN (tmp * p.units_multiplier[ii]) \div Scale ELSE tmp

\* tmp += units_offset[ii], when declared and tmp is not nodata
applyOffset(p, ii, tmp) ==
  IF p.units_offset # <<>> /\ tmp # nodata THEN tmp + p.units_offset[ii] ELSE tmp

\* the unit conversion of one parsed value: multiplier, then offset
applyUnits(p, ii, tmp) == applyOffset(p, ii, applyMultiplier(p, ii, tmp))

\* a variant that does not know the quoted markers
isNodataTokenUnquoted(p, tok) == tok = <<>> \/ tok = p.nodata

\* the nodata markers that leave a field untouched
isNodataToken(p, tok) ==
  \/ tok = <<>>
  \/ tok = p.nodata
  \/ tok = Quote(p.nodata, "\"")
  \/ tok = Quote(p.nodata, "'")

\* a variant in which errors_to_nodata has priority over silent_errors
conversionFailureNodataFirst(c) ==
  IF c.errors_to_nodata THEN "nodata"
  ELSE IF c.silent_errors THEN "drop"
  ELSE "throw"

\* what a failed numeric conversion does under the error policy
conversionFailure(c) ==
  IF c.silent_errors THEN "drop"
  ELSE IF c.errors_to_nodata THEN "nodata"
  ELSE "throw"

\* a token that went through convertString
convertedField(p, c, ii, name, acc, conv) ==
  IF ~conv.ok /\ conversionFailure(c) = "drop" THEN [acc EXCEPT !.no_errors = FALSE]
  ELSE IF ~conv.ok /\ conversionFailure(c) = "throw" THEN [acc EXCEPT !.thrown = TRUE]
  ELSE [acc EXCEPT !.md[name] = applyUnits(p, ii, IF conv.ok THEN conv.v * Scale ELSE nodata)]

\* one iteration of the loop over the tokens of a row
fillField(p, c, tok, ii, acc) ==
  IF ii \in p.skip_fields THEN acc
  ELSE IF isNodataToken(p, tok) THEN acc
  ELSE IF tok = NAN \/ tok = NULL THEN [acc EXCEPT !.md[p.csv_fields[ii]] = nodata]
  ELSE convertedField(p, c, ii, p.csv_fields[ii], acc, convertString(tok))

\* the loop over the tokens of one row (the for loop filling md)
RECURSIVE fillFields(_, _, _, _, _)
fillFields(p, c, tmp_vec, ii, acc) ==
  IF ii > Len(tmp_vec) \/ acc.thrown THEN acc
  ELSE fillFields(p, c, tmp_vec, ii + 1, fillField(p, c, tmp_vec[ii], ii, acc))

\* a variant in which the scan of a descending file never stops early
rangeTestDescendingToEnd(asc_order, dt, dateStart, dateEnd) ==
  IF asc_order
    THEN IF dt < dateStart THEN "skip" ELSE IF dt > dateEnd THEN "stop" ELSE "keep"
    ELSE IF dt < dateStart THEN "skip" ELSE IF dt > dateEnd THEN "skip" ELSE "keep"

\* the range test of a resolved row: "skip", "stop" or "keep"
rangeTest(asc_order, dt, dateStart, dateEnd) ==
  IF asc_order
    THEN IF dt < dateStart THEN "skip" ELSE IF dt > dateEnd THEN "stop" ELSE "keep"
    ELSE IF dt < dateStart THEN "stop" ELSE IF dt > dateEnd THEN "skip" ELSE "keep"

\* the stream position stored in the index for the row just read: tellg()
\* after getline, that is the beginning of the following line
indexedPos(st) == st.pos

Throw(st) == [st EXCEPT !.stop = "throw"]

\* if (no_errors) vecMeteo.push_back(md)
storeRow(p, st, dt, md) ==
  IF md.thrown THEN Throw(st)
  ELSE IF md.no_errors
    THEN [st EXCEPT !.vecMeteo = Append(@, [date |-> dt.t, id |-> p.id, fields |-> md.md])]
  ELSE st

\* the range test and the conversion of the fields
rangedLine(p, c, dateStart, dateEnd, st, tmp_vec, dt) ==
  IF rangeTest(p.asc_order, dt.t, dateStart, dateEnd) = "skip" THEN st
  ELSE IF rangeTest(p.asc_order, dt.t, dateStart, dateEnd) = "stop"
    THEN [st EXCEPT !.stop = "break"]
  ELSE storeRow(p, st, dt,
                fillFields(p, c, tmp_vec, 1,
                           [md |-> createTemplate(p), no_errors |-> TRUE, thrown |-> FALSE]))

\* every streampos_every_n_lines lines, the position is stored under the date
indexLine(st, dt) ==
  IF st.linenr % streampos_every_n_lines = 0
    THEN [st EXCEPT !.index = setIndex(@, dt.t, indexedPos(st))]
    ELSE st

\* a variant in which errors_to_nodata also suppresses an unreadable date
datedLineNodataSuppresses(p, c, dateStart, dateEnd, st, tmp_vec, dt) ==
  IF ~dt.ok THEN IF c.silent_errors \/ c.errors_to_nodata THEN st ELSE Throw(st)
  ELSE rangedLine(p, c, dateStart, dateEnd, indexLine(st, dt), tmp_vec, dt)

\* CsvIO::getDate and the line after it
datedLine(p, c, dateStart, dateEnd, st, tmp_vec, dt) ==
  IF ~dt.ok THEN IF c.silent_errors THEN st ELSE Throw(st)
  ELSE rangedLine(p, c, dateStart, dateEnd, indexLine(st, dt), tmp_vec, dt)

\* the auto_wrap flag left by parseDate; parsed is a trace of the rows that
\* reached getDate
resolved(st, tmp_vec, dt) ==
  [st EXCEPT !.auto_wrap = dt.auto_wrap,
             !.parsed = Append(@, [tokens |-> tmp_vec, ok |-> dt.ok, t |-> dt.t,
                                   pos |-> st.pos])]

\* a variant that checks the number of fields before it filters on the ID
filteredLineCountFirst(p, c, dateStart, dateEnd, st, tmp_vec, filterID, dt) ==
  IF Len(tmp_vec) # st.nr_of_data_fields
    THEN IF c.silent_errors THEN st ELSE Throw(st)
  ELSE IF p.ID_col # 0 /\ tmp_vec[p.ID_col] # filterID THEN st
  ELSE datedLine(p, c, dateStart, dateEnd, resolved(st, tmp_vec, dt), tmp_vec, dt)

\* the ID filter and the check of the number of fields
filteredLine(p, c, dateStart, dateEnd, st, tmp_vec, filterID, dt) ==
  IF p.ID_col # 0 /\ Len(tmp_vec) < p.ID_col THEN Throw(st)
  ELSE IF p.ID_col # 0 /\ tmp_vec[p.ID_col] # filterID THEN st
  ELSE IF Len(tmp_vec) # st.nr_of_data_fields
    THEN IF c.silent_errors THEN st ELSE Throw(st)
  ELSE datedLine(p, c, dateStart, dateEnd, resolved(st, tmp_vec, dt), tmp_vec, dt)

\* line.find(header_repeat_mk) != npos, for a configured marker; the marker
\* is looked for in every token of the line
hasHeaderRepeat(p, tmp_vec) ==
  /\ p.header_repeat_mk # <<>>
  /\ \E ii \in 1..Len(tmp_vec) :
       \E k \in 0..(Len(tmp_vec[ii]) - Len(p.header_repeat_mk)) :
         SubSeq(tmp_vec[ii], k + 1, k + Len(p.header_repeat_mk)) = p.header_repeat_mk

\* FileUtils::skipLines(fin, nbLines) and linenr += nbLines
skipLines(st, nbLines) ==
  [st EXCEPT !.pos = IF @ + nbLines > Len(file) THEN Len(file) ELSE @ + nbLines,
             !.linenr = @ + nbLines]

\* the body of the while loop for one line; st.pos and st.linenr already
\* count the line
processLine(p, c, dateStart, dateEnd, st, tmp_vec) ==
  IF tmp_vec = <<>> THEN st
  ELSE IF hasHeaderRepeat(p, tmp_vec) THEN skipLines(st, p.header_lines)
  ELSE filteredLine(p, c, dateStart, dateEnd,
                    [st EXCEPT !.nr_of_data_fields = IF @ = 0 THEN Len(tmp_vec) ELSE @],
                    tmp_vec,
                    IF p.filter_ID = <<>> THEN p.id ELSE p.filter_ID,
                    parseDate([p EXCEPT !.date_cols.auto_wrap = st.auto_wrap], tmp_vec))

\* while (!fin.eof()) { getline ... }
RECURSIVE scanLines(_, _, _, _, _)
scanLines(p, c, dateStart, dateEnd, st) ==
  IF st.stop # "no" \/ st.pos >= Len(file) THEN st
  ELSE scanLines(p, c, dateStart, dateEnd,
                 processLine(p, c, dateStart, dateEnd,
                             [st EXCEPT !.pos = @ + 1, !.linenr = @ + 1], file[st.pos + 1]))

Reverse(s) == [i \in 1..Len(s) |-> s[Len(s) + 1 - i]]

Min(a, b) == IF a < b THEN a ELSE b

\* the declared units vectors must have one entry per column
badUnits(p) ==
  \/ p.units_offset # <<>> /\ Len(p.units_offset) # Len(p.csv_fields)
  \/ p.units_multiplier # <<>> /\ Len(p.units_multiplier) # Len(p.csv_fields)

\* the position the scan starts from: the indexed offset, or after the header
startOfScan(p, index, seek, fpointer, skip_count) ==
  [pos |-> IF seek THEN fpointer ELSE Min(skip_count, Len(file)),
   linenr |-> IF seek THEN 0 ELSE skip_count,
   nr_of_data_fields |-> Len(p.csv_fields), vecMeteo |-> <<>>, index |-> index,
   auto_wrap |-> p.date_cols.auto_wrap, parsed |-> <<>>, stop |-> "no"]

\* the result of the read: the records in ascending order
endOfScan(p, seek, from, end) ==
  [vecMeteo |-> IF p.asc_order THEN end.vecMeteo ELSE Reverse(end.vecMeteo),
   index |-> end.index, auto_wrap |-> end.auto_wrap, parsed |-> end.parsed,
   thrown |-> end.stop = "throw", seek |-> seek, from |-> from, to |-> end.pos]

readFrom(p, c, dateStart, dateEnd, seek, st0) ==
  endOfScan(p, seek, st0.pos, IF badUnits(p) THEN Throw(st0) ELSE scanLines(p, c, dateStart, dateEnd, st0))

seekOrSkip(p, c, index, dateStart, dateEnd, fpointer) ==
  readFrom(p, c, dateStart, dateEnd, fpointer # NoPos /\ p.asc_order,
           startOfScan(p, index, fpointer # NoPos /\ p.asc_order, fpointer,
                       IF p.header_repeat_at_start THEN p.header_lines + 1 ELSE p.header_lines))

\* CsvIO::readCSVFile on the descriptor p with the index of its file
readCSVFile(p, c, index, dateStart, dateEnd) ==
  seekOrSkip(p, c, index, dateStart, dateEnd, getIndex(index, dateStart))

(***************************************************************************)
(* CsvParameters::setFile: the probe of the first data lines that decides  *)
(* asc_order.                                                              *)
(***************************************************************************)
min_valid_lines == 10

\* CsvDateTime::updateMaxCol, as a 1-based column
max_dt_col(dc) ==
  LET cols == {dc.decimal_date, dc.date_str, dc.time_str, dc.year, dc.jdn, dc.month, dc.day,
               dc.time, dc.hours, dc.minutes, dc.seconds}
  IN CHOOSE m \in cols : \A k \in cols : k <= m

\* one probed line with its date: the comparison with the previous valid date
probedDate(acc, dt) ==
  IF ~dt.ok THEN [acc EXCEPT !.auto_wrap = dt.auto_wrap]
  ELSE [acc EXCEPT !.auto_wrap = dt.auto_wrap,
                   !.prev_dt = [ok |-> TRUE, t |-> dt.t],
                   !.count_asc = IF acc.prev_dt.ok /\ dt.t > acc.prev_dt.t THEN @ + 1 ELSE @,
                   !.count_dsc = IF acc.prev_dt.ok /\ ~(dt.t > acc.prev_dt.t) THEN @ + 1 ELSE @]

\* one line of the probe: the first data line only fixes the fields
probedLine(p, tmp_vec, linenr, acc) ==
  IF tmp_vec = <<>> \/ linenr <= p.header_lines THEN acc
  ELSE IF ~acc.fields_ready THEN [acc EXCEPT !.fields_ready = TRUE]
  ELSE IF Len(tmp_vec) < max_dt_col(p.date_cols) THEN acc
  ELSE probedDate(acc, parseDate([p EXCEPT !.date_cols.auto_wrap = acc.auto_wrap], tmp_vec))

\* the first line that holds the marker sets header_repeat_at_start and is
\* not counted; every other line is counted and probed
countedLine(p, tmp_vec, acc) ==
  IF hasHeaderRepeat(p, tmp_vec) /\ ~acc.header_repeat_at_start
    THEN [acc EXCEPT !.header_repeat_at_start = TRUE]
    ELSE probedLine(p, tmp_vec, acc.linenr + 1, [acc EXCEPT !.linenr = @ + 1])

\* the loop over the first header_lines + 1000 lines of the file
RECURSIVE probeLines(_, _, _, _)
probeLines(p, f, ii, acc) ==
  IF ii > Len(f) \/ ii > p.header_lines + 1000
     \/ acc.count_asc + acc.count_dsc >= min_valid_lines
    THEN acc
    ELSE probeLines(p, f, ii + 1, countedLine(p, f[ii], acc))

\* a variant in which a tie of the two counts makes the file descending
orderDecisionTieDescending(acc) == ~(acc.count_dsc >= acc.count_asc)

\* the order decision: descending exactly when count_dsc > count_asc
orderDecision(acc) == ~(acc.count_dsc > acc.count_asc)

\* what the probe leaves in the descriptor
probed(p, acc) ==
  [p EXCEPT !.asc_order = orderDecision(acc),
            !.header_repeat_at_start = acc.header_repeat_at_start]

\* CsvParameters::setFile, for the part that decides asc_order; auto_wrap is
\* reset to the user's value after the probe
setFile(p, f) ==
  probed(p, probeLines(p, f, 1,
                       [fields_ready |-> FALSE, prev_dt |-> [ok |-> FALSE, t |-> 0],
                        count_asc |-> 0, count_dsc |-> 0, auto_wrap |-> p.date_cols.auto_wrap,
                        linenr |-> 0, header_repeat_at_start |-> p.header_repeat_at_start]))

(***************************************************************************)
(* CsvIO::readMeteoData: every descriptor is read in turn for the same     *)
(* range; an exception of one read ends the call.                          *)
(***************************************************************************)
\* the effects of the read r of station acc.ii: the descriptor keeps the
\* auto_wrap flag, the indexer keeps the index; reads is a trace of the call
stationRead(acc, r) ==
  [ii       |-> acc.ii + 1,
   csvparam |-> [acc.csvparam EXCEPT ![acc.ii].date_cols.auto_wrap = r.auto_wrap],
   index    |-> r.index,
   vecMeteo |-> [acc.vecMeteo EXCEPT ![acc.ii] = IF r.thrown THEN <<>> ELSE r.vecMeteo],
   thrown   |-> r.thrown,
   reads    |-> Append(acc.reads,
                  [index |-> acc.index, seek |-> r.seek, thrown |-> r.thrown,
                   parsed |-> r.parsed, wrap |-> acc.csvparam[acc.ii].date_cols.auto_wrap,
                   from |-> r.from, to |-> r.to])]

RECURSIVE readStations(_, _, _)
readStations(dateStart, dateEnd, acc) ==
  IF acc.ii > Len(acc.csvparam) \/ acc.thrown THEN acc
  ELSE readStations(dateStart, dateEnd,
         stationRead(acc, readCSVFile(acc.csvparam[acc.ii], cfg, acc.index, dateStart, dateEnd)))

\* the state the call leaves behind
returnData(dateStart, dateEnd, r) ==
  /\ csvparam' = r.csvparam
  /\ indexer_map' = r.index
  /\ vecMeteo' = r.vecMeteo
  /\ status' = IF r.thrown THEN "exception" ELSE "ok"
  /\ call' = [n |-> call.n + 1, dateStart |-> dateStart, dateEnd |-> dateEnd,
              reads |-> r.reads]
  /\ prev' = [call |-> call, vecMeteo |-> vecMeteo, status |-> status]

readMeteoData(dateStart, dateEnd) ==
  /\ call.n < MaxCalls
  /\ returnData(dateStart, dateEnd,
       readStations(dateStart, dateEnd,
         [ii |-> 1, csvparam |-> csvparam, index |-> indexer_map,
          vecMeteo |-> [i \in 1..Len(csvparam) |-> <<>>], thrown |-> FALSE, reads |-> <<>>]))
  /\ UNCHANGED <<cfg, file, instants>>

(***************************************************************************)
(* CsvParameters::parseFields: the role of every column, from its name.    *)
(***************************************************************************)
RECURSIVE parseFieldsFrom(_, _)
parseFieldsFrom(p, ii) ==
  IF ii > Len(p.csv_fields) THEN p
  ELSE
    LET tmp  == p.csv_fields[ii]
        skip == [p EXCEPT !.skip_fields = @ \cup {ii}]
        comp == [skip EXCEPT !.dt_as_components = TRUE]
    IN parseFieldsFrom(
         CASE tmp \in {"TIMESTAMP", "TS", "DATETIME"} ->
                IF p.dt_as_decimal THEN [skip EXCEPT !.date_cols.decimal_date = ii]
                ELSE [skip EXCEPT !.date_cols.date_str = ii, !.date_cols.time_str = ii]
           [] tmp \in {"DATE", "GIORNO", "FECHA"} -> [skip EXCEPT !.date_cols.date_str = ii]
           [] tmp \in {"TIME", "ORA", "HORA"} -> [skip EXCEPT !.date_cols.time_str = ii]
           [] tmp = "SKIP" -> skip
           [] tmp = "YEAR" -> [comp EXCEPT !.date_cols.year = ii]
           [] tmp \in {"JDAY", "JDN", "YDAY", "DAY_OF_YEAR", "DOY"} ->
                [skip EXCEPT !.date_cols.jdn = ii, !.dt_as_year_and_jdn = TRUE]
           [] tmp = "MONTH" -> [comp EXCEPT !.date_cols.month = ii]
           [] tmp = "DAY" -> [comp EXCEPT !.date_cols.day = ii]
           [] tmp = "NTIME" -> [comp EXCEPT !.date_cols.time = ii]
           [] tmp \in {"HOUR", "HOURS"} -> [comp EXCEPT !.date_cols.hours = ii]
           [] tmp \in {"MINUTE", "MINUTES"} -> [comp EXCEPT !.date_cols.minutes = ii]
           [] tmp \in {"SECOND", "SECONDS"} -> [comp EXCEPT !.date_cols.seconds = ii]
           [] tmp \in {"ID", "STATIONID"} -> [skip EXCEPT !.ID_col = ii]
           [] OTHER -> p,
         ii + 1)

parseFields(p) == parseFieldsFrom(p, 1)

(***************************************************************************)
(* The descriptor of one station as parseInputOutputSection builds it:     *)
(* the configured keys, then setFile (parseFields and the layout probe).   *)
(***************************************************************************)
NoDateCols ==
  [decimal_date |-> 0, date_str |-> 0, time_str |-> 0, year |-> 0, jdn |-> 0, month |-> 0,
   day |-> 0, time |-> 0, hours |-> 0, minutes |-> 0, seconds |-> 0, year_cst |-> inodata,
   auto_wrap |-> TRUE]

CsvParameters(id, fields, decimal, nodataMk, header_lines) ==
  [id |-> id, filter_ID |-> <<>>, ID_col |-> 0, csv_fields |-> fields, skip_fields |-> {},
   units_offset |-> <<>>, units_multiplier |-> <<>>, nodata |-> nodataMk,
   header_lines |-> header_lines, header_repeat_at_start |-> FALSE,
   header_repeat_mk |-> <<>>, asc_order |-> TRUE,
   dt_as_components |-> FALSE, dt_as_year_and_jdn |-> FALSE, dt_as_decimal |-> decimal,
   date_cols |-> NoDateCols, datetime_idx |-> <<>>, datetime_format |-> <<>>,
   time_idx |-> <<>>, time_format |-> <<>>, has_tz |-> FALSE,
   decimal_date_type |-> IF decimal THEN <<"M", "J", "U", "L", "I", "A", "N">> ELSE <<>>]

\* CsvParameters::setFixedYear
setFixedYear(p, i_year, auto_wrap) ==
  [p EXCEPT !.date_cols.year_cst = i_year, !.date_cols.auto_wrap = auto_wrap]

Station(p, f) == setFile(parseFields(p), f)

\* CSV#_UNITS_OFFSET and CSV#_UNITS_MULTIPLIER
setUnits(p, units_offset, units_multiplier) ==
  [p EXCEPT !.units_offset = units_offset, !.units_multiplier = units_multiplier]

(***************************************************************************)
(* Tokens and files of the initial states.                                 *)
(***************************************************************************)
RECURSIVE numToken(_)
numToken(n) == IF n < 10 THEN <<Digits[n + 1]>> ELSE Append(numToken(n \div 10), Digits[(n % 10) + 1])

HeaderLine == <<<<"h">>>>

Header(n) == IF n = 0 THEN <<>> ELSE HeaderLine

\* the data sections of at most n rows; setFile rejects a file that ends
\* before its first data line
SeqsUpTo(S, n) == UNION {[1..k -> S] : k \in 1..n}

NonDecreasing(ts) == \A i \in 1..Len(ts) - 1 : ts[i] <= ts[i + 1]

NonIncreasing(ts) == \A i \in 1..Len(ts) - 1 : ts[i] >= ts[i + 1]

StartState ==
  /\ indexer_map = <<>>
  /\ vecMeteo = [i \in 1..Len(csvparam) |-> <<>>]
  /\ status = "ok"
  /\ call = [n |-> 0, dateStart |-> 0, dateEnd |-> 0, reads |-> <<>>]
  /\ prev = [call |-> call, vecMeteo |-> vecMeteo, status |-> status]

\* the configuration keys of the [Input] section that the reads depend on
Config(silent_errors, errors_to_nodata, auto_wrap_year) ==
  [silent_errors |-> silent_errors, errors_to_nodata |-> errors_to_nodata,
   FALLBACK_AUTO_WRAP |-> auto_wrap_year]

\* modified julian day of the day before the first timestamp of a file
MJD0 == 51544

\* the timestamp token of day k
dayToken(k) == numToken(MJD0 + k)

IdA == <<"A">>

IdB == <<"B">>

(***************************************************************************)
(* Time-sorted files with a decimal (MJULIAN) timestamp, read by one       *)
(* station or, through an ID column, by two stations sharing the file.     *)
(***************************************************************************)
IndexFields(withID) == IF withID THEN <<"ID", "TIMESTAMP", "TA">> ELSE <<"TIMESTAMP", "TA">>

IndexLine(withID, r) ==
  IF withID THEN <<r[2], dayToken(r[1]), <<"5">>>> ELSE <<dayToken(r[1]), <<"5">>>>

IndexFile(withID, hl, rows) == Header(hl) \o [i \in 1..Len(rows) |-> IndexLine(withID, rows[i])]

IndexStation(id, withID, hl, f) ==
  Station(CsvParameters(id, IndexFields(withID), TRUE, NAN, hl), f)

InitIndex ==
  \E withID \in BOOLEAN, hl \in 0..1, rows \in SeqsUpTo((1..MaxTime) \X {IdA, IdB}, MaxRows) :
    /\ NonDecreasing([i \in 1..Len(rows) |-> rows[i][1]])
         \/ NonIncreasing([i \in 1..Len(rows) |-> rows[i][1]])
    /\ withID \/ \A i \in 1..Len(rows) : rows[i][2] = IdA
    /\ cfg = Config(FALSE, FALSE, TRUE)
    /\ file = IndexFile(withID, hl, rows)
    /\ instants = {DateMJD(MJD0 + k) : k \in 1..MaxTime}
    /\ csvparam = IF withID THEN <<IndexStation(IdA, withID, hl, IndexFile(withID, hl, rows)),
                                   IndexStation(IdB, withID, hl, IndexFile(withID, hl, rows))>>
                  ELSE <<IndexStation(IdA, withID, hl, IndexFile(withID, hl, rows))>>
    /\ StartState

(***************************************************************************)
(* Files without a year column, read with a fallback year: the julian day  *)
(* with NTIME, or month, day and hour.                                     *)
(***************************************************************************)
FallbackYear == 2020

\* julian days and months on both sides of the first of October
JdnOf == <<10, 272, 273, 350>>

MonthOf == <<1, 9, 10, 12>>

YearFields(jdnLayout) ==
  IF jdnLayout THEN <<"JDAY", "NTIME", "TA">> ELSE <<"MONTH", "DAY", "HOUR", "TA">>

YearLine(jdnLayout, d) ==
  IF jdnLayout THEN <<numToken(JdnOf[d]), <<"9", "3", "0">>, <<"5">>>>
  ELSE <<numToken(MonthOf[d]), <<"2">>, <<"9">>, <<"5">>>>

YearFile(jdnLayout, days) == HeaderLine \o [i \in 1..Len(days) |-> YearLine(jdnLayout, days[i])]

InitYear ==
  \E jdnLayout \in BOOLEAN, wrap \in BOOLEAN, days \in SeqsUpTo(1..4, MaxRows) :
    /\ cfg = Config(FALSE, FALSE, wrap)
    /\ file = YearFile(jdnLayout, days)
    /\ instants = {DateYMD(FallbackYear + k, 1, 1, 0, 0, 0) : k \in {0 - 1, 0, 1}}
    /\ csvparam = <<Station(setFixedYear(CsvParameters(IdA, YearFields(jdnLayout), FALSE, NAN, 1),
                                         FallbackYear, wrap),
                            YearFile(jdnLayout, days))>>
    /\ StartState

(***************************************************************************)
(* Files whose measurement tokens are numbers, nodata markers or text,     *)
(* read under every error policy, with and without unit conversions.  The  *)
(* row on line k + 1 carries the timestamp of day k.                       *)
(***************************************************************************)
RowFields == <<"TIMESTAMP", "TA", "RH">>

\* CSV_UNITS_OFFSET = 0 273.15 0
RowOffset == <<0, 27315, 0>>

\* CSV_UNITS_MULTIPLIER = 1 0.01 1
RowMultiplier == <<Scale, 1, Scale>>

Marker999 == <<"-", "9", "9", "9">>

ValueTokens(mk) ==
  {<<"2", "0">>, Marker999, <<"-", "9", "9", "9", "0", "0">>, <<>>, NAN, NULL, <<"x">>,
   Quote(mk, "\""), Quote(mk, "'")}

\* the TA and RH tokens of a row
RowKinds(mk) == (ValueTokens(mk) \X {<<"5">>}) \cup {<<<<"2", "0">>, <<"x">>>>}

RowFile(rows) == HeaderLine \o [k \in 1..Len(rows) |-> <<dayToken(k), rows[k][1], rows[k][2]>>]

RowStation(mk, useOffset, useMultiplier, f) ==
  Station(setUnits(CsvParameters(IdA, RowFields, TRUE, mk, 1),
                   IF useOffset THEN RowOffset ELSE <<>>,
                   IF useMultiplier THEN RowMultiplier ELSE <<>>), f)

InitRow ==
  \E silent \in BOOLEAN, toNodata \in BOOLEAN, useOffset \in BOOLEAN, useMultiplier \in BOOLEAN,
     mk \in {NAN, Marker999} :
    \E rows \in SeqsUpTo(RowKinds(mk), MaxOddRows) :
      /\ cfg = Config(silent, toNodata, TRUE)
      /\ file = RowFile(rows)
      /\ instants = {DateMJD(MJD0 + 1), DateMJD(MJD0 + MaxOddRows)}
      /\ csvparam = <<RowStation(mk, useOffset, useMultiplier, RowFile(rows))>>
      /\ StartState

(***************************************************************************)
(* Files with malformed rows: too few or too many tokens, an unreadable    *)
(* timestamp, and, with an ID column, rows of another station and rows too *)
(* short to hold the ID.                                                   *)
(***************************************************************************)
ErrFields(withID) == IF withID THEN <<"TIMESTAMP", "ID", "TA">> ELSE <<"TIMESTAMP", "TA">>

ErrKinds(withID) ==
  IF withID THEN {"good", "short", "long", "baddate", "noid", "other", "othershort"}
  ELSE {"good", "short", "long", "baddate"}

ErrLine(withID, k, kind) ==
  IF withID
    THEN CASE kind = "good" -> <<dayToken(k), IdA, <<"5">>>>
           [] kind = "short" -> <<dayToken(k), IdA>>
           [] kind = "long" -> <<dayToken(k), IdA, <<"5">>, <<"5">>>>
           [] kind = "baddate" -> <<<<"x">>, IdA, <<"5">>>>
           [] kind = "noid" -> <<dayToken(k)>>
           [] kind = "other" -> <<dayToken(k), IdB, <<"5">>>>
           [] kind = "othershort" -> <<dayToken(k), IdB>>
    ELSE CASE kind = "good" -> <<dayToken(k), <<"5">>>>
           [] kind = "short" -> <<dayToken(k)>>
           [] kind = "long" -> <<dayToken(k), <<"5">>, <<"5">>>>
           [] kind = "baddate" -> <<<<"x">>, <<"5">>>>

ErrFile(withID, kinds) == HeaderLine \o [k \in 1..Len(kinds) |-> ErrLine(withID, k, kinds[k])]

InitErr ==
  \E silent \in BOOLEAN, toNodata \in BOOLEAN, withID \in BOOLEAN :
    \E kinds \in SeqsUpTo(ErrKinds(withID), MaxOddRows) :
      /\ cfg = Config(silent, toNodata, TRUE)
      /\ file = ErrFile(withID, kinds)
      /\ instants = {DateMJD(MJD0 + 1), DateMJD(MJD0 + MaxOddRows)}
      /\ csvparam = <<Station(CsvParameters(IdA, ErrFields(withID), TRUE, NAN, 1),
                              ErrFile(withID, kinds))>>
      /\ StartState

Next == \E dateStart \in instants, dateEnd \in instants :
          dateStart <= dateEnd /\ readMeteoData(dateStart, dateEnd)

SpecIndex == InitIndex /\ [][Next]_vars

SpecYear == InitYear /\ [][Next]_vars

SpecRow == InitRow /\ [][Next]_vars

SpecErr == InitErr /\ [][Next]_vars

(***************************************************************************)
(* Notions used to state the properties.                                   *)
(***************************************************************************)
\* the descriptor of station i as it was when its last read began
descriptorBefore(i) == [csvparam[i] EXCEPT !.date_cols.auto_wrap = call.reads[i].wrap]

\* what the last read of station i returns when the index of the file is empty
freshRead(i) == readCSVFile(descriptorBefore(i), cfg, <<>>, call.dateStart, call.dateEnd)

\* station i was read by the last call and its read returned
Returned(i) == i <= Len(call.reads) /\ ~call.reads[i].thrown

\* the data section of the file
dataLines == SubSeq(file, csvparam[1].header_lines + 1, Len(file))

\* the timestamps of the data section, for files with a decimal timestamp
fileTimes == [k \in 1..Len(dataLines) |->
                DateMJD(convertString(dataLines[k][csvparam[1].date_cols.decimal_date]).v)]

StrictlyIncreasing(ts) == \A k \in 1..Len(ts) - 1 : ts[k] < ts[k + 1]

\* the dates of a record sequence
datesOf(records) == [k \in 1..Len(records) |-> records[k].date]

(***************************************************************************)
(* C1: for a file classified ascending, with strictly increasing           *)
(* timestamps, whose index holds entries from an earlier read, a read of   *)
(* any range returns exactly what a read with an empty index returns.      *)
(***************************************************************************)
C1_IndexedReadEqualsFreshRead ==
  \A i \in 1..Len(csvparam) :
    (/\ Returned(i)
     /\ csvparam[i].asc_order
     /\ StrictlyIncreasing(fileTimes)
     /\ call.reads[i].index # <<>>)
    => vecMeteo[i] = freshRead(i).vecMeteo

(***************************************************************************)
(* C3: on a time-sorted file a read returns exactly the rows of the        *)
(* station with dateStart <= timestamp <= dateEnd, in ascending order.     *)
(***************************************************************************)
\* the timestamps of the rows of station i inside the requested range
RECURSIVE rowsInRange(_, _)
rowsInRange(i, k) ==
  IF k > Len(dataLines) THEN <<>>
  ELSE LET p    == csvparam[i]
           mine == p.ID_col = 0 \/ dataLines[k][p.ID_col] = p.id
           in   == call.dateStart <= fileTimes[k] /\ fileTimes[k] <= call.dateEnd
       IN (IF mine /\ in THEN <<fileTimes[k]>> ELSE <<>>) \o rowsInRange(i, k + 1)

expectedDates(i) ==
  IF NonDecreasing(fileTimes) THEN rowsInRange(i, 1) ELSE Reverse(rowsInRange(i, 1))

C3_InclusiveBounds ==
  \A i \in 1..Len(csvparam) :
    Returned(i) => datesOf(vecMeteo[i]) = expectedDates(i)

(***************************************************************************)
(* C4: when two stations share a file, the index entries left by the reads *)
(* of station A never change what a read of station B returns.             *)
(***************************************************************************)
C4_SharedIndexTransparent ==
  (call.n = 1 /\ Len(csvparam) = 2 /\ Returned(2))
    => vecMeteo[2] = freshRead(2).vecMeteo

(***************************************************************************)
(* C2: two successive reads of a descriptor for the same range, neither    *)
(* using an index entry, return the same records.                          *)
(***************************************************************************)
C2_RereadIdentical ==
  \A i \in 1..Len(csvparam) :
    (/\ Returned(i)
     /\ i <= Len(prev.call.reads) /\ ~prev.call.reads[i].thrown
     /\ prev.call.dateStart = call.dateStart /\ prev.call.dateEnd = call.dateEnd
     /\ ~call.reads[i].seek /\ ~prev.call.reads[i].seek)
    => vecMeteo[i] = prev.vecMeteo[i]

(***************************************************************************)
(* Notions for the files read by a single station.                         *)
(***************************************************************************)
\* the read of the only station by the last call
theRead == call.reads[1]

InRange(t) == call.dateStart <= t /\ t <= call.dateEnd

\* the last call returned a record dated t
HasRecord(t) == \E r \in 1..Len(vecMeteo[1]) : vecMeteo[1][r].date = t

RecordAt(t) == vecMeteo[1][CHOOSE r \in 1..Len(vecMeteo[1]) : vecMeteo[1][r].date = t]

\* the columns stored as measurements
MeasurementCols == {ii \in 1..Len(csvparam[1].csv_fields) : ii \notin csvparam[1].skip_fields}

\* the tokens that stand for a missing value
NodataTokens ==
  {<<>>, csvparam[1].nodata, Quote(csvparam[1].nodata, "\""), Quote(csvparam[1].nodata, "'"),
   NAN, NULL}

\* the measurement columns of a row whose token fails the numeric conversion
GarbledCols(tokens) ==
  {ii \in MeasurementCols : tokens[ii] \notin NodataTokens /\ ~convertString(tokens[ii]).ok}

\* the value of a token that is a nodata token or a number
ParsedValue(ii, tok) ==
  IF tok \in NodataTokens THEN nodata
  ELSE applyUnits(csvparam[1], ii, convertString(tok).v * Scale)

\* the rows of the last read that reached the conversion of their fields
Converted(n) == theRead.parsed[n].ok /\ InRange(theRead.parsed[n].t)

(***************************************************************************)
(* C5: a measurement token that is no nodata token and fails the numeric   *)
(* conversion: under silent_errors (whatever errors_to_nodata is) the row  *)
(* is dropped and the scan goes on; else under errors_to_nodata the row is *)
(* kept, that field nodata and every other field as parsed; else the read  *)
(* aborts at that row.                                                     *)
(***************************************************************************)
C5_ConversionFailurePolicy ==
  call.n > 0 =>
    \A n \in 1..Len(theRead.parsed) :
      (Converted(n) /\ GarbledCols(theRead.parsed[n].tokens) # {}) =>
        IF cfg.silent_errors
          THEN /\ ~theRead.thrown
               /\ ~HasRecord(theRead.parsed[n].t)
               /\ theRead.parsed[n].pos < Len(file) => theRead.to > theRead.parsed[n].pos
        ELSE IF cfg.errors_to_nodata
          THEN /\ ~theRead.thrown
               /\ HasRecord(theRead.parsed[n].t)
               /\ \A ii \in MeasurementCols :
                    RecordAt(theRead.parsed[n].t).fields[csvparam[1].csv_fields[ii]] =
                      IF ii \in GarbledCols(theRead.parsed[n].tokens) THEN nodata
                      ELSE ParsedValue(ii, theRead.parsed[n].tokens[ii])
        ELSE theRead.thrown /\ n = Len(theRead.parsed) /\ theRead.to = theRead.parsed[n].pos

\* both flags set: a row with a text token was dropped and the row after it kept
C5_Witness ==
  /\ call.n > 0 /\ cfg.silent_errors /\ cfg.errors_to_nodata /\ ~theRead.thrown
  /\ \E n \in 1..Len(theRead.parsed) :
       /\ Converted(n) /\ GarbledCols(theRead.parsed[n].tokens) # {}
       /\ n < Len(theRead.parsed)
       /\ HasRecord(theRead.parsed[n + 1].t)

(***************************************************************************)
(* C9: a measurement token that is empty, the nodata marker, the marker in *)
(* single or double quotes, NAN or NULL leaves its field at the nodata     *)
(* sentinel, whatever the units; a row without any other unreadable token  *)
(* raises no error under any policy and is kept.                           *)
(***************************************************************************)
C9_NodataTokensStayNodata ==
  call.n > 0 =>
    \A n \in 1..Len(theRead.parsed) :
      (Converted(n) /\ GarbledCols(theRead.parsed[n].tokens) = {}) =>
        /\ ~(theRead.thrown /\ n = Len(theRead.parsed))
        /\ ~theRead.thrown =>
             /\ HasRecord(theRead.parsed[n].t)
             /\ \A ii \in MeasurementCols :
                  theRead.parsed[n].tokens[ii] \in NodataTokens =>
                    RecordAt(theRead.parsed[n].t).fields[csvparam[1].csv_fields[ii]] = nodata

\* the marker in single quotes, with both unit vectors declared, under the
\* default policy: the record holds nodata
C9_Witness ==
  /\ call.n > 0 /\ ~cfg.silent_errors /\ ~cfg.errors_to_nodata
  /\ csvparam[1].units_offset # <<>> /\ csvparam[1].units_multiplier # <<>>
  /\ \E n \in 1..Len(theRead.parsed) :
       /\ theRead.parsed[n].tokens[2] = Quote(csvparam[1].nodata, "'")
       /\ HasRecord(theRead.parsed[n].t)
       /\ RecordAt(theRead.parsed[n].t).fields["TA"] = nodata

(***************************************************************************)
(* C10: every parsed value of column i is stored as                        *)
(* raw * multiplier[i] + offset[i]; a vector that is not declared is the   *)
(* identity.                                                               *)
(***************************************************************************)
\* the token of column ii is a number
Numeric(tok) == tok \notin NodataTokens /\ convertString(tok).ok

Raw(tok) == convertString(tok).v * Scale

MultiplierOf(ii) ==
  IF csvparam[1].units_multiplier = <<>> THEN Scale ELSE csvparam[1].units_multiplier[ii]

OffsetOf(ii) == IF csvparam[1].units_offset = <<>> THEN 0 ELSE csvparam[1].units_offset[ii]

Product(ii, tok) == (Raw(tok) * MultiplierOf(ii)) \div Scale

\* the stored value of column ii of the record of the n-th parsed row
Stored(n, ii) == RecordAt(theRead.parsed[n].t).fields[csvparam[1].csv_fields[ii]]

C10_MultiplyThenAdd ==
  (call.n > 0 /\ ~theRead.thrown) =>
    \A n \in 1..Len(theRead.parsed) : \A ii \in MeasurementCols :
      (HasRecord(theRead.parsed[n].t) /\ Numeric(theRead.parsed[n].tokens[ii])) =>
        Stored(n, ii) = Product(ii, theRead.parsed[n].tokens[ii]) + OffsetOf(ii)

(***************************************************************************)
(* Notions for the malformed rows.                                         *)
(***************************************************************************)
\* the lines the last read took from the file
LinesRead == (theRead.from + 1)..theRead.to

WrongCount(k) == Len(file[k]) # Len(csvparam[1].csv_fields)

BadDate(k) ==
  ~WrongCount(k) /\ ~convertString(file[k][csvparam[1].date_cols.decimal_date]).ok

Offending(k) == WrongCount(k) \/ BadDate(k)

\* the timestamp written on line k
LineTime(k) == DateMJD(convertString(file[k][csvparam[1].date_cols.decimal_date]).v)

\* no record carries the timestamp written on line k
NoRecordFrom(k) ==
  convertString(file[k][csvparam[1].date_cols.decimal_date]).ok => ~HasRecord(LineTime(k))

\* line k is a row of the station: there is no ID column, or the row holds
\* the ID of the station
PassesFilter(k) ==
  \/ csvparam[1].ID_col = 0
  \/ Len(file[k]) >= csvparam[1].ID_col /\ file[k][csvparam[1].ID_col] = csvparam[1].id

\* what the policy does with the offending line k
RowErrorOutcome(k) ==
  /\ NoRecordFrom(k)
  /\ IF cfg.silent_errors
       THEN /\ ~(theRead.thrown /\ theRead.to = k)
            /\ k < Len(file) => theRead.to > k
       ELSE theRead.thrown /\ theRead.to = k

KeyOf(tokens) == convertString(tokens[1]).v

\* the first of October, as a julian day or as a month
Threshold == IF csvparam[1].dt_as_year_and_jdn THEN 273 ELSE 10

\* the timestamp of a row if its year is y
DateInYear(tokens, y) ==
  IF csvparam[1].dt_as_year_and_jdn
    THEN DateYearJdn(y, KeyOf(tokens),
                     ((convertString(tokens[2]).v \div 100) * 60
                       + (convertString(tokens[2]).v % 100)) * 60)
    ELSE DateYMD(y, KeyOf(tokens), convertString(tokens[2]).v, convertString(tokens[3]).v, 0, 0)

\* every row of the parse up to the n-th is on or after the first of October
AllLate(n) == \A m \in 1..n : KeyOf(theRead.parsed[m].tokens) >= Threshold

(***************************************************************************)
(* C7: with a fallback year and auto-wrap enabled, within one parse the    *)
(* rows on or after the first of October read before the first earlier row *)
(* resolve to the fallback year - 1, and every row from that first earlier *)
(* row on resolves to the fallback year.                                   *)
(***************************************************************************)
C7_WrapUntilFirstEarlyRow ==
  (call.n > 0 /\ cfg.FALLBACK_AUTO_WRAP) =>
    \A n \in 1..Len(theRead.parsed) :
      theRead.parsed[n].t =
        DateInYear(theRead.parsed[n].tokens,
                   IF AllLate(n) THEN FallbackYear - 1 ELSE FallbackYear)

(***************************************************************************)
(* C8: with a fallback year and auto-wrap enabled, a row before the first  *)
(* of October is assigned the year before the fallback year.               *)
(***************************************************************************)
C8_EarlyRowYearBefore ==
  (call.n > 0 /\ cfg.FALLBACK_AUTO_WRAP) =>
    \A n \in 1..Len(theRead.parsed) :
      KeyOf(theRead.parsed[n].tokens) < Threshold =>
        theRead.parsed[n].t = DateInYear(theRead.parsed[n].tokens, FallbackYear - 1)

(***************************************************************************)
(* C8, amended: a row before the first of October is assigned the fallback *)
(* year itself; a row on or after the first of October is assigned the     *)
(* year before the fallback year while the auto-wrap flag of the           *)
(* descriptor is still on (it was on when the read began and no earlier    *)
(* row of the read is before the first of October), and the fallback year  *)
(* once it is off.                                                         *)
(***************************************************************************)
C8_LateRowYearBeforeWhileWrapping ==
  call.n > 0 =>
    \A n \in 1..Len(theRead.parsed) :
      theRead.parsed[n].t =
        DateInYear(theRead.parsed[n].tokens,
                   IF theRead.wrap /\ AllLate(n) THEN FallbackYear - 1 ELSE FallbackYear)

\* auto-wrap on: a row on or after the first of October got the year before
\* and the row before the first of October after it the fallback year
C8_Witness ==
  /\ call.n > 0 /\ theRead.wrap
  /\ \E n \in 2..Len(theRead.parsed) :
       /\ AllLate(n - 1) /\ KeyOf(theRead.parsed[n].tokens) < Threshold
       /\ theRead.parsed[n - 1].t = DateInYear(theRead.parsed[n - 1].tokens, FallbackYear - 1)
       /\ theRead.parsed[n].t = DateInYear(theRead.parsed[n].tokens, FallbackYear)

(***************************************************************************)
(* Character strings.  A string is a sequence of one-character strings; a  *)
(* position in a string is 0-based as in std::string and npos is -1.       *)
(***************************************************************************)
npos == 0 - 1

\* std::string::find(str, pos)
RECURSIVE find(_, _, _)
find(s, str, pos) ==
  IF pos + Len(str) > Len(s) THEN npos
  ELSE IF SubSeq(s, pos + 1, pos + Len(str)) = str THEN pos
  ELSE find(s, str, pos + 1)

\* std::string::substr(pos, len); a length of npos, or one that wrapped
\* around, reads to the end of the string
substr(s, pos, len) ==
  SubSeq(s, pos + 1, IF len < 0 \/ pos + len > Len(s) THEN Len(s) ELSE pos + len)

\* std::string::find_last_of(c)
find_last_of(s, c) ==
  IF \E i \in 1..Len(s) : s[i] = c
    THEN (CHOOSE i \in 1..Len(s) : s[i] = c /\ \A j \in (i + 1)..Len(s) : s[j] # c) - 1
    ELSE npos

LowerCase == <<"a", "b", "c", "d", "e", "f", "g", "h", "i", "j", "k", "l", "m", "n", "o", "p", "q", "r", "s", "t", "u", "v", "w", "x", "y", "z">>

UpperCase == <<"A", "B", "C", "D", "E", "F", "G", "H", "I", "J", "K", "L", "M", "N", "O", "P", "Q", "R", "S", "T", "U", "V", "W", "X", "Y", "Z">>

\* IOUtils::strToUpper
strToUpper(s) ==
  [i \in 1..Len(s) |->
     IF \E k \in 1..Len(LowerCase) : LowerCase[k] = s[i]
       THEN UpperCase[CHOOSE k \in 1..Len(LowerCase) : LowerCase[k] = s[i]]
       ELSE s[i]]

\* FileUtils::getFilename: the path without its directories
getFilename(path) == substr(path, find_last_of(path, "/") + 1, npos)

\* FileUtils::removeExtension: the name up to its last dot
removeExtension(filename) ==
  IF find_last_of(filename, ".") = npos THEN filename
  ELSE substr(filename, 0, find_last_of(filename, "."))

\* IOUtils::removeQuotes: the quote characters of a header field are dropped
removeQuotes(s) == SelectSeq(s, LAMBDA c : c \notin {"\"", "'"})

\* atoi: the value of the leading digits, 0 when there is none
RECURSIVE atoi(_, _)
atoi(s, acc) ==
  IF s = <<>> \/ ~IsDigit(Head(s)) THEN acc ELSE atoi(Tail(s), acc * 10 + DigitVal(Head(s)))

(***************************************************************************)
(* Station metadata: CsvParameters::parseHeadersSpecs, identifyField,      *)
(* assignMetadataVariable, parseSpecialHeaders and parseFileName.  The     *)
(* descriptor under construction carries thrown, set by the first          *)
(* exception; nothing is done after it.                                    *)
(***************************************************************************)
\* MeteoData::getStaticParameterIndex: the standard parameter names
StaticParameters ==
  {<<"P">>, <<"T", "A">>, <<"R", "H">>, <<"T", "S", "G">>, <<"T", "S", "S">>, <<"H", "S">>, <<"V", "W">>, <<"D", "W">>, <<"V", "W", "_", "M", "A", "X">>, <<"R", "S", "W", "R">>, <<"I", "S", "W", "R">>, <<"I", "L", "W", "R">>,
   <<"T", "A", "U", "_", "C", "L", "D">>, <<"P", "S", "U", "M">>, <<"P", "S", "U", "M", "_", "P", "H">>}

\* the (count, prefix, name) tests of identifyField, in the order of the code
KnownFields ==
  << <<15, <<"T", "E", "M", "P", "E", "R", "A", "T", "U", "R", "E", "_", "A", "I", "R">>, <<"T", "A">>>>, <<7, <<"A", "I", "R", "T", "E", "M", "P">>, <<"T", "A">>>>, <<16, <<"T", "E", "M", "P", "E", "R", "A", "T", "U", "R", "A", "_", "A", "R", "I", "A">>, <<"T", "A">>>>,
     <<16, <<"S", "O", "I", "L", "_", "T", "E", "M", "P", "E", "R", "A", "T", "U", "R", "E">>, <<"T", "S", "G">>>>, <<8, <<"S", "O", "I", "L", "T", "E", "M", "P">>, <<"T", "S", "G">>>>,
     <<13, <<"P", "R", "E", "C", "I", "P", "I", "T", "A", "T", "I", "O", "N">>, <<"P", "S", "U", "M">>>>, <<4, <<"P", "R", "E", "C">>, <<"P", "S", "U", "M">>>>, <<14, <<"P", "R", "E", "C", "I", "P", "I", "T", "A", "Z", "I", "O", "N", "E">>, <<"P", "S", "U", "M">>>>,
     <<19, <<"R", "E", "F", "L", "E", "C", "T", "E", "D", "_", "R", "A", "D", "I", "A", "T", "I", "O", "N">>, <<"R", "S", "W", "R">>>>, <<26, <<"R", "A", "D", "I", "A", "Z", "I", "O", "N", "E", "_", "S", "O", "L", "A", "R", "E", "_", "R", "I", "F", "L", "E", "S", "S", "A">>, <<"R", "S", "W", "R">>>>,
     <<18, <<"I", "N", "C", "O", "M", "I", "N", "G", "_", "R", "A", "D", "I", "A", "T", "I", "O", "N">>, <<"R", "S", "W", "R">>>>, <<26, <<"I", "N", "C", "O", "M", "I", "N", "G", "S", "H", "O", "R", "T", "W", "A", "V", "E", "R", "A", "D", "I", "A", "T", "I", "O", "N">>, <<"R", "S", "W", "R">>>>,
     <<27, <<"R", "A", "D", "I", "A", "Z", "I", "O", "N", "E", "_", "S", "O", "L", "A", "R", "E", "_", "I", "N", "C", "I", "D", "E", "N", "T", "E">>, <<"R", "S", "W", "R">>>>,
     <<14, <<"W", "I", "N", "D", "_", "D", "I", "R", "E", "C", "T", "I", "O", "N">>, <<"D", "W">>>>, <<2, <<"W", "D">>, <<"D", "W">>>>, <<15, <<"D", "I", "R", "E", "Z", "I", "O", "N", "E", "_", "V", "E", "N", "T", "O">>, <<"D", "W">>>>,
     <<17, <<"R", "E", "L", "A", "T", "I", "V", "E", "_", "H", "U", "M", "I", "D", "I", "T", "Y">>, <<"R", "H">>>>, <<16, <<"R", "E", "L", "A", "T", "I", "V", "E", "H", "U", "M", "I", "D", "I", "T", "Y">>, <<"R", "H">>>>,
     <<15, <<"U", "M", "I", "D", "I", "T", "_", "R", "E", "L", "A", "T", "I", "V", "A">>, <<"R", "H">>>>,
     <<13, <<"W", "I", "N", "D", "_", "V", "E", "L", "O", "C", "I", "T", "Y">>, <<"V", "W">>>>, <<2, <<"W", "S">>, <<"V", "W">>>>, <<13, <<"V", "E", "L", "O", "C", "I", "T", "_", "V", "E", "N", "T", "O">>, <<"V", "W">>>>,
     <<8, <<"P", "R", "E", "S", "S", "U", "R", "E">>, <<"P">>>>, <<15, <<"S", "T", "A", "T", "I", "O", "N", "P", "R", "E", "S", "S", "U", "R", "E">>, <<"P">>>>,
     <<17, <<"I", "N", "C", "O", "M", "I", "N", "G", "_", "L", "O", "N", "G", "W", "A", "V", "E">>, <<"I", "L", "W", "R">>>>, <<25, <<"I", "N", "C", "O", "M", "I", "N", "G", "L", "O", "N", "G", "W", "A", "V", "E", "R", "A", "D", "I", "A", "T", "I", "O", "N">>, <<"I", "L", "W", "R">>>>,
     <<22, <<"S", "N", "O", "W", "S", "U", "R", "F", "A", "C", "E", "T", "E", "M", "P", "E", "R", "A", "T", "U", "R", "E">>, <<"T", "S", "S">>>>,
     <<6, <<"W", "S", "_", "M", "A", "X">>, <<"V", "W", "_", "M", "A", "X">>>> >>

\* fieldname.compare(0, n, str) == 0
comparePrefix(fieldname, n, str) == substr(fieldname, 0, n) = str

\* the name of the first test that matches, else the field name itself
identifyField(fieldname) ==
  IF \E k \in 1..Len(KnownFields) : comparePrefix(fieldname, KnownFields[k][1], KnownFields[k][2])
    THEN KnownFields[CHOOSE k \in 1..Len(KnownFields) :
           /\ comparePrefix(fieldname, KnownFields[k][1], KnownFields[k][2])
           /\ \A j \in 1..(k - 1) :
                ~comparePrefix(fieldname, KnownFields[j][1], KnownFields[j][2])][3]
    ELSE fieldname

\* the parameter name a PARAM value stands for
paramName(param) == IF param \in StaticParameters THEN param ELSE identifyField(param)

NumericMetadata == {<<"A", "L", "T">>, <<"L", "O", "N">>, <<"L", "A", "T">>, <<"S", "L", "O", "P", "E">>, <<"A", "Z", "I">>, <<"E", "A", "S", "T", "I", "N", "G">>, <<"N", "O", "R", "T", "H", "I", "N", "G">>}

\* the coordinates and angles: the number read, as a fixed-point value
assignNumeric(p, field_type, tmp) ==
  IF ~tmp.ok THEN [p EXCEPT !.thrown = TRUE]
  ELSE [p EXCEPT !.location[field_type] = tmp.v * Scale]

assignMetadataVariable(p, field_type, field_val) ==
  IF field_type = <<"I", "D">> THEN (IF p.id = <<>> THEN [p EXCEPT !.id = field_val] ELSE p)
  ELSE IF field_type = <<"N", "A", "M", "E">> THEN (IF p.name = <<>> THEN [p EXCEPT !.name = field_val] ELSE p)
  ELSE IF field_type = <<"N", "O", "D", "A", "T", "A">> THEN [p EXCEPT !.nodata = field_val]
  ELSE IF field_type = <<"S", "K", "I", "P">> THEN p
  ELSE IF field_type = <<"P", "A", "R", "A", "M">> THEN [p EXCEPT !.single_field = paramName(strToUpper(field_val))]
  ELSE IF field_type \in NumericMetadata THEN assignNumeric(p, field_type, convertString(field_val))
  ELSE [p EXCEPT !.thrown = TRUE]

\* one extracted value: ID and NAME are appended to the values the same
\* call extracted before, when the call found them empty
extracted(a, field_type, value) ==
  IF field_type = <<"I", "D">> /\ a.readID
    THEN [a EXCEPT !.p.id = a.prev_ID \o value, !.prev_ID = a.prev_ID \o value \o <<"-">>]
  ELSE IF field_type = <<"N", "A", "M", "E">> /\ a.readName
    THEN [a EXCEPT !.p.name = a.prev_NAME \o value, !.prev_NAME = a.prev_NAME \o value \o <<"-">>]
  ELSE [a EXCEPT !.p = assignMetadataVariable(a.p, field_type, value)]

\* the state of one extraction call
extraction(p) ==
  [p |-> p, readID |-> p.id = <<>>, readName |-> p.name = <<>>,
   prev_ID |-> <<>>, prev_NAME |-> <<>>]

\* one specification "field:line:column", already split at the colons
headerSpec(vecArgs) ==
  [linenr |-> atoi(vecArgs[2], 0), colnr |-> atoi(vecArgs[3], 0), field_type |-> vecArgs[1]]

\* the multimap, as the sequence of its entries in insertion order; thrown
\* for a specification that has not three parts or a number that is not > 0
parseHeadersSpecs(vecMetaSpec) ==
  IF \E ii \in 1..Len(vecMetaSpec) :
       \/ Len(vecMetaSpec[ii]) # 3
       \/ headerSpec(vecMetaSpec[ii]).linenr <= 0
       \/ headerSpec(vecMetaSpec[ii]).colnr <= 0
    THEN [thrown |-> TRUE, meta_spec |-> <<>>]
    ELSE [thrown |-> FALSE,
          meta_spec |-> [ii \in 1..Len(vecMetaSpec) |-> headerSpec(vecMetaSpec[ii])]]

\* meta_spec.equal_range(linenr): the entries of a line, in insertion order
equal_range(meta_spec, linenr) == SelectSeq(meta_spec, LAMBDA e : e.linenr = linenr)

RECURSIVE specialHeadersFrom(_, _, _)
specialHeadersFrom(a, vecStr, range) ==
  IF range = <<>> \/ a.p.thrown THEN a
  ELSE IF Head(range).colnr > Len(vecStr) THEN [a EXCEPT !.p.thrown = TRUE]
  ELSE specialHeadersFrom(
         extracted(a, strToUpper(Head(range).field_type),
                   removeQuotes(vecStr[Head(range).colnr])),
         vecStr, Tail(range))

\* vecStr is the header line split at the header delimiter
parseSpecialHeaders(p, vecStr, linenr, meta_spec) ==
  specialHeadersFrom(extraction(p), vecStr, equal_range(meta_spec, linenr)).p

\* the leading constant pattern of the specification, when there is one
leadingPattern(filename, filename_spec) ==
  IF Head(filename_spec) = "{" THEN [thrown |-> FALSE, pos |-> 0]
  ELSE IF find(filename_spec, <<"{">>, 0) = npos THEN [thrown |-> TRUE, pos |-> 0]
  ELSE IF substr(filename, 0, find(filename_spec, <<"{">>, 0))
          # substr(filename_spec, 0, find(filename_spec, <<"{">>, 0))
    THEN [thrown |-> TRUE, pos |-> 0]
  ELSE [thrown |-> FALSE, pos |-> find(filename_spec, <<"{">>, 0)]

\* the variable between pos_mt and start_pattern, whose value is len_var long
RECURSIVE fileNameVariables(_, _, _, _, _)
\* a variant that does not skip the constant pattern after the variable
fileNameVariableKeepsPattern(a, filename, filename_spec, pos_fn, pos_mt, start_pattern, end_pattern, len_var) ==
  IF end_pattern = npos
    THEN extracted(a, strToUpper(substr(filename_spec, pos_mt + 1, start_pattern - pos_mt - 1)),
                   substr(filename, pos_fn, len_var))
    ELSE fileNameVariables(
           extracted(a, strToUpper(substr(filename_spec, pos_mt + 1, start_pattern - pos_mt - 1)),
                     substr(filename, pos_fn, len_var)),
           filename, filename_spec, pos_fn + len_var, end_pattern)

fileNameVariable(a, filename, filename_spec, pos_fn, pos_mt, start_pattern, end_pattern, len_var) ==
  IF end_pattern = npos
    THEN extracted(a, strToUpper(substr(filename_spec, pos_mt + 1, start_pattern - pos_mt - 1)),
                   substr(filename, pos_fn, len_var))
    ELSE fileNameVariables(
           extracted(a, strToUpper(substr(filename_spec, pos_mt + 1, start_pattern - pos_mt - 1)),
                     substr(filename, pos_fn, len_var)),
           filename, filename_spec,
           pos_fn + len_var + (end_pattern - start_pattern - 1), end_pattern)

\* the constant pattern between '}' and the next '{' ends the variable
fileNamePattern(a, filename, filename_spec, pos_fn, pos_mt, start_pattern, end_pattern) ==
  IF start_pattern = npos
    THEN IF end_pattern # npos THEN [a EXCEPT !.p.thrown = TRUE] ELSE a
  ELSE IF end_pattern = npos
    THEN fileNameVariable(a, filename, filename_spec, pos_fn, pos_mt, start_pattern,
                          end_pattern, npos)
  ELSE IF find(filename, substr(filename_spec, start_pattern + 1,
                                end_pattern - start_pattern - 1), pos_fn) = npos
    THEN [a EXCEPT !.p.thrown = TRUE]
  ELSE fileNameVariable(a, filename, filename_spec, pos_fn, pos_mt, start_pattern, end_pattern,
         find(filename, substr(filename_spec, start_pattern + 1,
                               end_pattern - start_pattern - 1), pos_fn) - pos_fn)

\* the loop over the variables of the specification
fileNameVariables(a, filename, filename_spec, pos_fn, pos_mt) ==
  IF a.p.thrown THEN a
  ELSE fileNamePattern(a, filename, filename_spec, pos_fn, pos_mt,
                       find(filename_spec, <<"}">>, pos_mt), find(filename_spec, <<"{">>, pos_mt + 1))

\* filename is the name without directories and extension
fileNameFrom(p, filename, filename_spec, lead) ==
  IF lead.thrown THEN [p EXCEPT !.thrown = TRUE]
  ELSE fileNameVariables(extraction(p), filename, filename_spec, lead.pos, lead.pos).p

parseFileName(p, file_and_path, filename_spec) ==
  fileNameFrom(p, removeExtension(getFilename(file_and_path)), filename_spec,
               leadingPattern(removeExtension(getFilename(file_and_path)), filename_spec))

(***************************************************************************)
(* CsvParameters::setFile, for the station metadata: the file name, then   *)
(* the header lines in the order of the file, then the fallbacks.          *)
(***************************************************************************)
\* the lines of the file that setFile reads, each split at the header delimiter
RECURSIVE readSpecialHeaders(_, _, _, _)
readSpecialHeaders(p, lines, linenr, meta_spec) ==
  IF linenr > Len(lines) \/ p.thrown THEN p
  ELSE readSpecialHeaders(
         IF lines[linenr] # <<>> /\ equal_range(meta_spec, linenr) # <<>>
           THEN parseSpecialHeaders(p, lines[linenr], linenr, meta_spec)
           ELSE p,
         lines, linenr + 1, meta_spec)

\* the name falls back on the file name, the id on the name or on the index
fallbackIdentity(p, i_file_and_path, station_idx) ==
  IF p.thrown THEN p
  ELSE [p EXCEPT
          !.name = IF @ = <<>> THEN removeExtension(getFilename(i_file_and_path)) ELSE @,
          !.id = IF @ # <<>> THEN @
                 ELSE IF station_idx # <<>> THEN <<"I", "D">> \o station_idx
                 ELSE IF p.name = <<>> THEN removeExtension(getFilename(i_file_and_path))
                 ELSE p.name]

\* Coords::isNodata: neither a latitude and longitude nor an easting and northing
locationIsNodata(p) ==
  /\ (p.location[<<"L", "A", "T">>] = nodata \/ p.location[<<"L", "O", "N">>] = nodata)
  /\ (p.location[<<"E", "A", "S", "T", "I", "N", "G">>] = nodata \/ p.location[<<"N", "O", "R", "T", "H", "I", "N", "G">>] = nodata)

missingCoordinates(p) ==
  IF ~p.thrown /\ locationIsNodata(p) THEN [p EXCEPT !.thrown = TRUE] ELSE p

fileNameMetadata(p, i_file_and_path, filename_spec) ==
  IF filename_spec # <<>> THEN parseFileName(p, i_file_and_path, filename_spec) ELSE p

setFileMetadata(p, i_file_and_path, lines, meta, filename_spec, station_idx) ==
  IF meta.thrown THEN [p EXCEPT !.thrown = TRUE]
  ELSE fallbackIdentity(
         missingCoordinates(
           readSpecialHeaders(fileNameMetadata(p, i_file_and_path, filename_spec),
                              lines, 1, meta.meta_spec)),
         i_file_and_path, station_idx)

(***************************************************************************)
(* The date and time formats: CsvParameters::checkSpecString,              *)
(* setDateTimeSpec and setTimeSpec compile a pattern such as               *)
(* "DD.MM.YYYY HH24:MI:SS" into a scanf template and the order of its      *)
(* fields (0 the year, 1 the month, ..., 5 the seconds).                   *)
(***************************************************************************)
\* IOUtils::count: the occurrences of a substring, without overlap
RECURSIVE count(_, _, _)
count(s, str, pos) ==
  IF find(s, str, pos) = npos THEN 0
  ELSE 1 + count(s, str, find(s, str, pos) + Len(str))

\* std::string::replace(pos, len, str)
replace(s, pos, len, str) == substr(s, 0, pos) \o str \o substr(s, pos + len, npos)

\* IOUtils::replace_all: every occurrence, searched after the last replacement
RECURSIVE replace_from(_, _, _, _)
replace_from(s, from, to, pos) ==
  IF find(s, from, pos) = npos THEN s
  ELSE replace_from(replace(s, find(s, from, pos), Len(from), to), from, to,
                    find(s, from, pos) + Len(to))

replace_all(s, from, to) == replace_from(s, from, to, 0)

\* a variant that accepts every template
checkSpecStringAcceptsAll(spec_string, nr_params) == TRUE

\* TRUE when the template is usable, FALSE when checkSpecString throws
checkSpecString(spec_string, nr_params) ==
  /\ count(spec_string, <<"%">>, 0) = nr_params
  /\ count(spec_string, <<"%">>, 0)
       = count(spec_string, <<"%", "f">>, 0) + count(spec_string, <<"%", "2", "f">>, 0)
         + count(spec_string, <<"%", "4", "f">>, 0) + count(spec_string, <<"%", "3", "2", "s">>, 0)
  /\ find(spec_string, <<"%", "%">>, 0) = npos

\* the keys of setDateTimeSpec; setTimeSpec uses the last three
DateTimeKeys == <<<<"Y", "Y", "Y", "Y">>, <<"M", "M">>, <<"D", "D">>, <<"H", "H", "2", "4">>, <<"M", "I">>, <<"S", "S">>>>

TimeKeys == <<<<"H", "H", "2", "4">>, <<"M", "I">>, <<"S", "S">>>>

\* sorting_vector: the indices of the keys found, sorted by their position
RECURSIVE sorting_vector(_, _, _)
sorting_vector(found, spec, keys) ==
  IF found = {} THEN <<>>
  ELSE <<CHOOSE ii \in found :
           \A jj \in found : find(spec, keys[ii + 1], 0) <= find(spec, keys[jj + 1], 0)>>
       \o sorting_vector(
            found \ {CHOOSE ii \in found :
                       \A jj \in found : find(spec, keys[ii + 1], 0) <= find(spec, keys[jj + 1], 0)},
            spec, keys)

keysOrder(spec, keys) ==
  sorting_vector({ii \in 0..(Len(keys) - 1) : find(spec, keys[ii + 1], 0) # npos}, spec, keys)

\* "TZ" must be at the very end; it becomes "%32s"
tzOutOfPlace(spec) == find(spec, <<"T", "Z">>, 0) # npos /\ find(spec, <<"T", "Z">>, 0) # Len(spec) - 2

tzReplaced(spec) ==
  IF find(spec, <<"T", "Z">>, 0) # npos THEN replace(spec, find(spec, <<"T", "Z">>, 0), 2, <<"%", "3", "2", "s">>) ELSE spec

\* the replacements of setDateTimeSpec, in the order of the code
dateTimeTemplate(spec) ==
  replace_all(replace_all(replace_all(replace_all(replace_all(replace_all(
    tzReplaced(spec), <<"D", "D">>, <<"%", "2", "f">>), <<"M", "M">>, <<"%", "2", "f">>), <<"Y", "Y", "Y", "Y">>, <<"%", "4", "f">>), <<"H", "H", "2", "4">>, <<"%", "2", "f">>),
    <<"M", "I">>, <<"%", "2", "f">>), <<"S", "S">>, <<"%", "f">>)

\* the replacements of setTimeSpec
timeTemplate(spec) ==
  replace_all(replace_all(replace_all(tzReplaced(spec), <<"H", "H", "2", "4">>, <<"%", "2", "f">>), <<"M", "I">>, <<"%", "2", "f">>),
              <<"S", "S">>, <<"%", "f">>)

nr_params_check(has_tz, idx) == IF has_tz THEN Len(idx) + 1 ELSE Len(idx)

\* the descriptor with the template and the order of the fields, once has_tz is known
dateTimeChecked(p, format, idx, has_tz) ==
  IF ~checkSpecString(format, nr_params_check(has_tz, idx)) THEN [p EXCEPT !.thrown = TRUE]
  ELSE [p EXCEPT !.datetime_idx = idx, !.datetime_format = format, !.has_tz = has_tz]

setDateTimeSpec(p, datetime_spec) ==
  IF p.thrown THEN p
  ELSE IF tzOutOfPlace(datetime_spec) THEN [p EXCEPT !.thrown = TRUE]
  ELSE dateTimeChecked(p, dateTimeTemplate(datetime_spec),
                       p.datetime_idx \o keysOrder(datetime_spec, DateTimeKeys),
                       p.has_tz \/ find(datetime_spec, <<"T", "Z">>, 0) # npos)

timeChecked(p, format, idx, has_tz) ==
  IF ~checkSpecString(format, nr_params_check(has_tz, idx)) THEN [p EXCEPT !.thrown = TRUE]
  ELSE [p EXCEPT !.time_idx = idx, !.time_format = format, !.has_tz = has_tz]

setTimeSpec(p, time_spec) ==
  IF p.thrown \/ time_spec = <<>> THEN p
  ELSE IF tzOutOfPlace(time_spec) THEN [p EXCEPT !.thrown = TRUE]
  ELSE timeChecked(p, timeTemplate(time_spec), p.time_idx \o keysOrder(time_spec, TimeKeys),
                   p.has_tz \/ find(time_spec, <<"T", "Z">>, 0) # npos)

\* setDecimalDateType: the type in upper case must be one of the known types
DecimalDateTypes == {<<"E", "X", "C", "E", "L">>, <<"J", "U", "L", "I", "A", "N">>, <<"M", "J", "U", "L", "I", "A", "N">>, <<"M", "A", "T", "L", "A", "B">>, <<"R", "F", "C", "8", "6", "8">>, <<"U", "N", "I", "X">>}

setDecimalDateType(p, decimaldate_type) ==
  IF p.thrown THEN p
  ELSE IF strToUpper(decimaldate_type) \notin DecimalDateTypes THEN [p EXCEPT !.thrown = TRUE]
  ELSE [p EXCEPT !.dt_as_decimal = TRUE, !.decimal_date_type = strToUpper(decimaldate_type)]

(***************************************************************************)
(* CsvIO::parseInputOutputSection for one station.  The configuration is   *)
(* the function cfg.keys from the keys that exist to their values; a key   *)
(* is looked up for the station (prefix CSV<idx>_) and then for all the    *)
(* stations (prefix CSV_).                                                 *)
(***************************************************************************)
keyExists(c, key) == key \in DOMAIN c.keys

\* the prefix for a key of the current station only
pre(idx) == "CSV" \o idx \o "_"

\* the prefix for a key for all the stations
dflt == "CSV_"

\* if (cfg.keyExists(pre+X)) cfg.getValue(pre+X, v); else cfg.getValue(dflt+X, v, nothrow);
getValue(c, idx, X, default) ==
  IF keyExists(c, pre(idx) \o X) THEN c.keys[pre(idx) \o X]
  ELSE IF keyExists(c, dflt \o X) THEN c.keys[dflt \o X]
  ELSE default

\* POSITION<idx>, else POSITION
coords_specs(c, idx) ==
  IF keyExists(c, "POSITION" \o idx) THEN c.keys["POSITION" \o idx]
  ELSE IF keyExists(c, "POSITION") THEN c.keys["POSITION"]
  ELSE <<>>

\* Coords(coordin, coordinparam, coords_specs): "latlon (lat, lon, alt)"
setLocation(specs) ==
  [f \in NumericMetadata |->
     IF specs = <<>> THEN nodata
     ELSE IF f = <<"L", "A", "T">> THEN specs[1] * Scale
     ELSE IF f = <<"L", "O", "N">> THEN specs[2] * Scale
     ELSE IF f = <<"A", "L", "T">> THEN specs[3] * Scale
     ELSE nodata]

\* CSV#_SINGLE_PARAM_INDEX as a 1-based column, 0 when it is not given
single_param_idx(c, idx) == getValue(c, idx, "SINGLE_PARAM_INDEX", 0)

\* CSV#_COLUMNS_HEADERS (default 1), 0 for npos when it is beyond the header lines
columns_headers(c, idx) ==
  IF getValue(c, idx, "COLUMNS_HEADERS", 1) > getValue(c, idx, "NR_HEADERS", 1) THEN 0
  ELSE getValue(c, idx, "COLUMNS_HEADERS", 1)

\* the value of one key, empty when the key does not exist
keyValue(c, key) == IF keyExists(c, key) THEN c.keys[key] ELSE <<>>

\* the four keys of the date and time formats under one prefix
dateKeys(c, prefix) ==
  [decimaldate_type |-> keyValue(c, prefix \o "DECIMALDATE_TYPE"),
   datetime_spec |-> keyValue(c, prefix \o "DATETIME_SPEC"),
   date_spec |-> keyValue(c, prefix \o "DATE_SPEC"),
   time_spec |-> keyValue(c, prefix \o "TIME_SPEC")]

\* the keys for all the stations are read only when the station has none of the four
dateSpecsOf(c, idx, stationKeys) ==
  IF stationKeys.decimaldate_type = <<>> /\ stationKeys.datetime_spec = <<>>
     /\ stationKeys.date_spec = <<>> /\ stationKeys.time_spec = <<>>
    THEN dateKeys(c, dflt) ELSE stationKeys

dateSpecs(c, idx) == dateSpecsOf(c, idx, dateKeys(c, pre(idx)))

\* the combinations of the four keys that the constructor refuses
dateSpecsRefused(k) ==
  \/ k.decimaldate_type # <<>>
       /\ (k.datetime_spec # <<>> \/ k.date_spec # <<>> \/ k.time_spec # <<>>)
  \/ k.datetime_spec # <<>> /\ (k.date_spec # <<>> \/ k.time_spec # <<>>)
  \/ (k.date_spec # <<>>) # (k.time_spec # <<>>)

setDateSpecs(p, k) ==
  IF dateSpecsRefused(k) THEN [p EXCEPT !.thrown = TRUE]
  ELSE IF k.decimaldate_type # <<>> THEN setDecimalDateType(p, k.decimaldate_type)
  ELSE IF k.datetime_spec # <<>> THEN setDateTimeSpec(p, k.datetime_spec)
  ELSE IF k.date_spec # <<>> THEN setTimeSpec(setDateTimeSpec(p, k.date_spec), k.time_spec)
  ELSE p

\* CSV#_FALLBACK_YEAR and CSV#_FALLBACK_AUTO_WRAP
setFallbackYear(p, c, idx) ==
  IF getValue(c, idx, "FALLBACK_YEAR", inodata) = inodata THEN p
  ELSE setFixedYear(p, getValue(c, idx, "FALLBACK_YEAR", inodata),
                    getValue(c, idx, "FALLBACK_AUTO_WRAP", TRUE))

\* the descriptor with the keys read before the date and time formats
keysRead(c, idx) ==
  [name |-> getValue(c, idx, "NAME", <<>>), single_field |-> <<>>,
   single_param_idx |-> single_param_idx(c, idx), columns_headers |-> columns_headers(c, idx),
   location |-> setLocation(coords_specs(c, idx)),
   thrown |-> columns_headers(c, idx) = 0 /\ getValue(c, idx, "FIELDS", <<>>) = <<>>]
  @@ CsvParameters(getValue(c, idx, "ID", <<>>), getValue(c, idx, "FIELDS", <<>>), FALSE,
                   getValue(c, idx, "NODATA", NAN), getValue(c, idx, "NR_HEADERS", 1))

\* the descriptor before setFile
tmp_csv(c, idx) == setFallbackYear(setDateSpecs(keysRead(c, idx), dateSpecs(c, idx)), c, idx)

(***************************************************************************)
(* CsvParameters::parseFields(headerFields, fieldNames): the names of the  *)
(* columns, their roles, the checks on the date representation, the        *)
(* default formats and the column named after the single parameter.        *)
(***************************************************************************)
\* a name of the file as a name of a column
RECURSIVE fieldString(_)
fieldString(tok) == IF tok = <<>> THEN "" ELSE Head(tok) \o fieldString(Tail(tok))

\* the line of the column headers, empty when no line is
columnsLine(p, f) ==
  IF p.columns_headers \in 1..Len(f)
    THEN [ii \in 1..Len(f[p.columns_headers]) |->
            fieldString(strToUpper(f[p.columns_headers][ii]))]
    ELSE <<>>

\* CsvDateTime::isSet
isSet(dc) ==
  \/ dc.date_str # 0 /\ dc.time_str # 0
  \/ dc.decimal_date # 0
  \/ /\ dc.year # 0 \/ dc.year_cst # inodata
     /\ dc.jdn # 0 \/ (dc.month # 0 /\ dc.day # 0)
     /\ dc.time # 0 \/ dc.hours # 0

\* the formats when the configuration gives none
defaultSpecs(p) ==
  IF p.dt_as_decimal THEN p
  ELSE IF p.date_cols.date_str = p.date_cols.time_str
    THEN IF p.datetime_idx = <<>> THEN setDateTimeSpec(p, <<"Y", "Y", "Y", "Y", "-", "M", "M", "-", "D", "D", "T", "H", "H", "2", "4", ":", "M", "I", ":", "S", "S">>) ELSE p
  ELSE setTimeSpec(
         IF p.date_cols.date_str # 0 /\ p.datetime_idx = <<>>
           THEN setDateTimeSpec(p, <<"Y", "Y", "Y", "Y", "-", "M", "M", "-", "D", "D">>) ELSE p,
         IF p.date_cols.time_str # 0 /\ p.time_idx = <<>> THEN <<"H", "H", "2", "4", ":", "M", "I", ":", "S", "S">> ELSE <<>>)

\* the column that takes the name of the single parameter, 0 when none does
singleFieldColumn(p) ==
  IF p.single_param_idx # 0 /\ p.single_param_idx <= Len(p.csv_fields) THEN p.single_param_idx
  ELSE IF p.date_cols.date_str = p.date_cols.time_str /\ Len(p.csv_fields) = 2
    THEN IF p.date_cols.date_str = 1 THEN 2 ELSE 1
  ELSE IF p.date_cols.date_str # p.date_cols.time_str /\ Len(p.csv_fields) = 3
    THEN CHOOSE pidx \in 1..3 :
           /\ pidx \notin {p.date_cols.date_str, p.date_cols.time_str}
           /\ \A other \in 1..(pidx - 1) : other \in {p.date_cols.date_str, p.date_cols.time_str}
  ELSE 0

\* a variant that names the column whoever provided the names
singleFieldAlways(p, user_provided_field_names) ==
  IF p.thrown \/ p.single_field = <<>> THEN p
  ELSE IF p.ID_col # 0 THEN [p EXCEPT !.thrown = TRUE]
  ELSE IF singleFieldColumn(p) = 0 THEN p
  ELSE [p EXCEPT !.csv_fields[singleFieldColumn(p)] = fieldString(p.single_field)]

singleField(p, user_provided_field_names) ==
  IF p.thrown \/ p.single_field = <<>> \/ user_provided_field_names THEN p
  ELSE IF p.ID_col # 0 THEN [p EXCEPT !.thrown = TRUE]
  ELSE IF singleFieldColumn(p) = 0 THEN p
  ELSE [p EXCEPT !.csv_fields[singleFieldColumn(p)] = fieldString(p.single_field)]

\* the checks for time handling consistency, on the roles of the columns
fieldsChecked(p) ==
  IF ~isSet(p.date_cols) \/ (p.dt_as_components /\ p.single_field # <<>>)
    THEN [p EXCEPT !.thrown = TRUE]
    ELSE defaultSpecs(p)

parseFieldNames(p, headerFields, user_provided_field_names) ==
  IF headerFields = <<>> /\ ~user_provided_field_names THEN [p EXCEPT !.thrown = TRUE]
  ELSE singleField(
         fieldsChecked(parseFields(IF user_provided_field_names THEN p
                                   ELSE [p EXCEPT !.csv_fields = headerFields])),
         user_provided_field_names)

\* the probe of the order of the lines, once the columns are known
probedLayout(p, f) == IF p.thrown THEN p ELSE setFile(p, f)

\* the layout of the columns and the probe of the order, unless thrown
setFileLayout(p, f) ==
  IF p.thrown THEN p
  ELSE probedLayout(parseFieldNames(p, columnsLine(p, f), p.csv_fields # <<>>), f)

\* setFile(meteopath + "/" + file, vecMetaSpec, filename_spec, idx)
setFileFrom(p, i_file_and_path, f, vecMetaSpec, filename_spec, station_idx) ==
  setFileLayout(
    setFileMetadata(p, i_file_and_path, f, parseHeadersSpecs(vecMetaSpec), filename_spec,
                    station_idx),
    f)

\* the descriptor of the station "STATION" + idx
stationDescriptor(c, f, idx) ==
  setFileFrom(tmp_csv(c, idx), c.keys["METEOPATH"] \o <<"/">> \o c.keys["STATION" \o idx], f,
              getValue(c, idx, "SPECIAL_HEADERS", <<>>),
              getValue(c, idx, "FILENAME_SPEC", <<>>), <<idx>>)

\* csvparam.push_back( tmp_csv ), or the exception that ends the constructor
pushBack(p) ==
  /\ csvparam' = IF p.thrown THEN csvparam ELSE Append(csvparam, p)
  /\ status' = IF p.thrown THEN "exception" ELSE "ok"

parseInputOutputSection ==
  /\ status = "init"
  /\ pushBack(stationDescriptor(cfg, file, "1"))
  /\ UNCHANGED <<cfg, file, instants, indexer_map, vecMeteo, call, prev>>

\* the plugin before its constructor ran
BeforeConstruction ==
  /\ csvparam = <<>>
  /\ indexer_map = <<>>
  /\ vecMeteo = <<>>
  /\ status = "init"
  /\ instants = {}
  /\ call = [n |-> 0, dateStart |-> 0, dateEnd |-> 0, reads |-> <<>>]
  /\ prev = [call |-> call, vecMeteo |-> vecMeteo, status |-> status]

\* a key that may be absent from the configuration
Key(present, key, value) == IF present THEN key :> value ELSE <<>>

\* the keys every configuration holds: the station, its position, its columns
BaseKeys(station, fields, nr_headers) ==
  ("METEOPATH" :> <<"d">>) @@ ("STATION1" :> station) @@ ("POSITION1" :> <<46, 9, 1500>>)
  @@ ("CSV_FIELDS" :> fields) @@ ("CSV_NR_HEADERS" :> nr_headers)

\* the configuration: the keys of the [Input] section, the error policy read
Configuration(keys) == [keys |-> keys] @@ Config(FALSE, FALSE, TRUE)

(***************************************************************************)
(* Files with two header lines that carry metadata, named so that the file *)
(* name carries metadata too, with or without configured ID and NAME.      *)
(***************************************************************************)
MetaNames == {<<"H", "1", "_", "G", "e", "n", "-", "C", "a", "l", "_", "-", "_", "P", "r", "e", "c", ".", "c", "s", "v">>, <<"H", "0", "1", "1", "8", "_", "G", "e", "n", "e", "r", "o", "s", "o", "-", "C", "a", "l", "m", "a", "s", "i", "n", "o", "_", "-", "_", "P", "r", "e", "c", "i", "p", "i", "t", "a", "t", "i", "o", "n", ".", "c", "s", "v">>, <<"s", "t", ".", "c", "s", "v">>}

MetaFilenameSpecs ==
  {<<>>, <<"{", "I", "D", "}">>, <<"{", "I", "D", "}", "_", "{", "N", "A", "M", "E", "}", "-", "{", "S", "K", "I", "P", "}", "_", "-", "_", "{", "P", "A", "R", "A", "M", "}">>, <<"H", "{", "I", "D", "}", "_", "{", "S", "K", "I", "P", "}">>, <<"X", "{", "I", "D", "}", "_", "{", "S", "K", "I", "P", "}">>,
   <<"{", "I", "D", "}", "_", "{", "N", "A", "M", "E", "}", ".", "d", "a", "t">>, <<"{", "N", "A", "M", "E", "}", "+", "{", "I", "D", "}">>, <<"{", "I", "D", "}", "_", "{", "I", "D", "}", "-", "{", "S", "K", "I", "P", "}">>, <<"{", "n", "a", "m", "e", "}", "-", "{", "p", "a", "r", "a", "m", "}">>}

MetaHeaders == << <<<<"S", "1">>, <<"A", "l", "p", "h", "a">>, <<"\"", "Q", "\"">>>>, <<<<"S", "2">>, <<"-", "9", "9", "9">>, <<"w", "s">>>> >>

MetaSpecs ==
  {<<>>,
   << <<<<"I", "D">>, <<"1">>, <<"1">>>> >>,
   << <<<<"n", "a", "m", "e">>, <<"1">>, <<"2">>>> >>,
   << <<<<"I", "D">>, <<"1">>, <<"1">>>>, <<<<"N", "A", "M", "E">>, <<"1">>, <<"2">>>> >>,
   << <<<<"I", "D">>, <<"1">>, <<"1">>>>, <<<<"I", "D">>, <<"1">>, <<"3">>>> >>,
   << <<<<"I", "D">>, <<"1">>, <<"3">>>>, <<<<"I", "D">>, <<"1">>, <<"1">>>> >>,
   << <<<<"I", "D">>, <<"1">>, <<"1">>>>, <<<<"I", "D">>, <<"2">>, <<"1">>>> >>,
   << <<<<"I", "D">>, <<"2">>, <<"1">>>>, <<<<"I", "D">>, <<"1">>, <<"1">>>> >>,
   << <<<<"N", "A", "M", "E">>, <<"1">>, <<"2">>>>, <<<<"N", "A", "M", "E">>, <<"2">>, <<"1">>>> >>,
   << <<<<"N", "O", "D", "A", "T", "A">>, <<"1">>, <<"1">>>>, <<<<"N", "O", "D", "A", "T", "A">>, <<"2">>, <<"2">>>> >>,
   << <<<<"P", "A", "R", "A", "M">>, <<"2">>, <<"3">>>>, <<<<"A", "L", "T">>, <<"2">>, <<"2">>>>, <<<<"S", "K", "I", "P">>, <<"1">>, <<"1">>>> >>,
   << <<<<"A", "L", "T">>, <<"1">>, <<"1">>>> >>,
   << <<<<"I", "D">>, <<"0">>, <<"1">>>> >>,
   << <<<<"I", "D">>, <<"1">>, <<"9">>>> >>,
   << <<<<"F", "O", "O">>, <<"1">>, <<"1">>>> >>,
   << <<<<"I", "D">>, <<"1">>>> >>}

MetaFile == MetaHeaders \o <<<<dayToken(1), numToken(5)>>, <<dayToken(2), numToken(6)>>>>

InitMeta ==
  /\ \E station \in MetaNames, filename_spec \in MetaFilenameSpecs, vecMetaSpec \in MetaSpecs,
        withID \in BOOLEAN, withName \in BOOLEAN :
       cfg = Configuration(
               BaseKeys(station, <<"TIMESTAMP", "TA">>, 2)
               @@ ("CSV_DECIMALDATE_TYPE" :> <<"M", "J", "U", "L", "I", "A", "N">>)
               @@ Key(filename_spec # <<>>, "CSV_FILENAME_SPEC", filename_spec)
               @@ Key(vecMetaSpec # <<>>, "CSV1_SPECIAL_HEADERS", vecMetaSpec)
               @@ Key(withID, "CSV1_ID", <<"C", "7">>) @@ Key(withName, "CSV1_NAME", <<"C", "i", "m", "a">>))
  /\ file = MetaFile
  /\ BeforeConstruction

NextSetup == parseInputOutputSection

SpecMeta == InitMeta /\ [][NextSetup]_vars

(***************************************************************************)
(* Files whose rows carry the date and time as strings, written after the  *)
(* pattern of the configuration; the pattern keys are given for the        *)
(* station, for all the stations, or both.                                 *)
(***************************************************************************)
\* n in decimal, with leading zeros up to width digits
RECURSIVE padded(_, _)
padded(n, width) ==
  IF width = 0 THEN <<>> ELSE Append(padded(n \div 10, width - 1), Digits[(n % 10) + 1])

\* the zone written in the place of TZ: one hour east of GMT
WrittenZone == <<"+", "0", "1">>

\* year, month, day, hour, minute, second written after a pattern
written(pattern, fields) ==
  replace_all(replace_all(replace_all(replace_all(replace_all(replace_all(replace_all(
    pattern, <<"T", "Z">>, WrittenZone), <<"D", "D">>, padded(fields[3], 2)), <<"M", "M">>, padded(fields[2], 2)),
    <<"Y", "Y", "Y", "Y">>, padded(fields[1], 4)), <<"H", "H", "2", "4">>, padded(fields[4], 2)), <<"M", "I">>, padded(fields[5], 2)),
    <<"S", "S">>, padded(fields[6], 2))

FormatInstants ==
  << <<2020, 1, 5, 8, 30, 0>>, <<2020, 3, 21, 10, 15, 30>>, <<2021, 12, 31, 23, 59, 59>> >>

\* the rows of a file: one or two of the instants, in the order of time
FormatRows ==
  {<<a>> : a \in 1..3} \cup {rows \in (1..3) \X (1..3) : rows[1] < rows[2]}

DateTimePatterns ==
  {<<"Y", "Y", "Y", "Y", "-", "M", "M", "-", "D", "D", "T", "H", "H", "2", "4", ":", "M", "I", ":", "S", "S">>, <<"D", "D", ".", "M", "M", ".", "Y", "Y", "Y", "Y", " ", "H", "H", "2", "4", ":", "M", "I">>, <<"Y", "Y", "Y", "Y", "M", "M", "D", "D", "H", "H", "2", "4">>, <<"M", "M", "/", "D", "D", "/", "Y", "Y", "Y", "Y">>,
   <<"Y", "Y", "Y", "Y", "-", "M", "M">>, <<"H", "H", "2", "4", ":", "M", "I">>, <<"Y", "Y", "Y", "Y", "-", "M", "M", "-", "D", "D", " ", "H", "H", "2", "4", ":", "M", "I", ":", "S", "S", "T", "Z">>, <<"T", "Z", " ", "Y", "Y", "Y", "Y", "-", "M", "M", "-", "D", "D">>, <<"Y", "Y", "Y", "Y", "-", "M", "M", "-", "D", "D", " ", "M", "M">>,
   <<"Y", "Y", "Y", "Y", "%", "M", "M", "%", "D", "D">>, <<"S", "S", "M", "I", "H", "H", "2", "4", " ", "D", "D", ".", "M", "M", ".", "Y", "Y", "Y", "Y">>, <<"D", "D", ".", "M", "M", ".", "Y", "Y", "Y", "Y">>}

DatePatterns == {<<"Y", "Y", "Y", "Y", "-", "M", "M", "-", "D", "D">>, <<"D", "D", "/", "M", "M", "/", "Y", "Y", "Y", "Y">>, <<"Y", "Y", "Y", "Y", "-", "M", "M">>, <<"Y", "Y", "Y", "Y", "-", "D", "D", "-", "Y", "Y", "Y", "Y">>}

TimePatterns == {<<"H", "H", "2", "4", ":", "M", "I", ":", "S", "S">>, <<"H", "H", "2", "4", ":", "M", "I">>, <<"H", "H", "2", "4", ":", "M", "I", "T", "Z">>, <<"T", "Z", "H", "H", "2", "4">>, <<"H", "H", "2", "4", "%", "M", "I">>, <<"M", "I", ":", "M", "I">>}

\* another pattern, for the key that the station key hides
HiddenPattern == <<"D", "D", "/", "M", "M", "/", "Y", "Y", "Y", "Y", " ", "H", "H", "2", "4">>

\* a key given for the station, for all the stations, or both with another value
Placed(where, X, value, hidden) ==
  IF where = "station" THEN pre("1") \o X :> value
  ELSE IF where = "global" THEN dflt \o X :> value
  ELSE (pre("1") \o X :> value) @@ (dflt \o X :> hidden)

\* a header line and the rows: the date and time strings, then a measurement
StringFile(rows, datePattern, timePattern) ==
  << <<<<"h">>>> >>
  \o [k \in 1..Len(rows) |->
        IF timePattern = <<>>
          THEN <<written(datePattern, FormatInstants[rows[k]]), numToken(k)>>
          ELSE <<written(datePattern, FormatInstants[rows[k]]),
                 written(timePattern, FormatInstants[rows[k]]), numToken(k)>>]

\* the bounds of the reads: before the first instant and after the last
FormatBounds == {DateYMD(2020, 1, 1, 0, 0, 0), DateYMD(2022, 1, 1, 0, 0, 0)}

InitDateTimeSpec ==
  \E pattern \in DateTimePatterns, where \in {"station", "global", "both"}, rows \in FormatRows,
     withName \in {"none", "station", "global", "both"} :
    /\ cfg = Configuration(
               BaseKeys(<<"s", "t", ".", "c", "s", "v">>, <<"TIMESTAMP", "TA">>, 1)
               @@ Placed(where, "DATETIME_SPEC", pattern, HiddenPattern)
               @@ (IF withName = "none" THEN <<>> ELSE Placed(withName, "NAME", <<"C", "i", "m", "a">>, <<"V", "a", "l", "l", "e">>)))
    /\ file = StringFile(rows, pattern, <<>>)

InitDateAndTimeSpec ==
  \E datePattern \in DatePatterns, timePattern \in TimePatterns,
     whereDate \in {"station", "global", "both"}, whereTime \in {"station", "global"},
     rows \in FormatRows :
    /\ cfg = Configuration(
               BaseKeys(<<"s", "t", ".", "c", "s", "v">>, <<"DATE", "TIME", "TA">>, 1)
               @@ Placed(whereDate, "DATE_SPEC", datePattern, <<"M", "M", "/", "D", "D", "/", "Y", "Y", "Y", "Y">>)
               @@ Placed(whereTime, "TIME_SPEC", timePattern, <<>>))
    /\ file = StringFile(rows, datePattern, timePattern)

\* no pattern is configured: the files follow the default patterns
InitDefaultSpec ==
  \E split \in BOOLEAN, rows \in FormatRows, withNodata \in {"none", "station", "global", "both"} :
    /\ cfg = Configuration(
               BaseKeys(<<"s", "t", ".", "c", "s", "v">>, IF split THEN <<"DATE", "TIME", "TA">> ELSE <<"TIMESTAMP", "TA">>, 1)
               @@ (IF withNodata = "none" THEN <<>>
                   ELSE Placed(withNodata, "NODATA", <<"-", "9", "9", "9">>, <<"-", "7", "7", "7">>)))
    /\ file = IF split THEN StringFile(rows, <<"Y", "Y", "Y", "Y", "-", "M", "M", "-", "D", "D">>, <<"H", "H", "2", "4", ":", "M", "I", ":", "S", "S">>)
              ELSE StringFile(rows, <<"Y", "Y", "Y", "Y", "-", "M", "M", "-", "D", "D", "T", "H", "H", "2", "4", ":", "M", "I", ":", "S", "S">>, <<>>)

InitFormat ==
  /\ InitDateTimeSpec \/ InitDateAndTimeSpec \/ InitDefaultSpec
  /\ csvparam = <<>>
  /\ indexer_map = <<>>
  /\ vecMeteo = <<>>
  /\ status = "init"
  /\ instants = FormatBounds
  /\ call = [n |-> 0, dateStart |-> 0, dateEnd |-> 0, reads |-> <<>>]
  /\ prev = [call |-> call, vecMeteo |-> vecMeteo, status |-> status]

\* readMeteoData, once the constructor has returned
readAfterSetup == csvparam # <<>> /\ Next

NextRead == parseInputOutputSection \/ readAfterSetup

SpecFormat == InitFormat /\ [][NextRead]_vars

(***************************************************************************)
(* Files whose rows carry the same instants in the representations of the  *)
(* date: strings, a decimal date, or components in columns of their own.   *)
(***************************************************************************)
\* whole minutes; the first and the third are whole days
ReprInstants ==
  << <<2020, 1, 5, 0, 0, 0>>, <<2020, 3, 21, 10, 15, 0>>, <<2020, 10, 2, 0, 0, 0>>,
     <<2021, 12, 31, 23, 59, 0>> >>

\* the rows of a file: one or two of the instants, in the order of time
ReprRows == {<<a>> : a \in 1..4} \cup {rows \in (1..4) \X (1..4) : rows[1] < rows[2]}

\* the declarations of the columns: one representation each ...
PureLayouts ==
  {<<"TIMESTAMP", "TA">>, <<"DATE", "TIME", "TA">>,
   <<"YEAR", "JDAY", "NTIME", "TA">>, <<"YEAR", "JDAY", "HOUR", "MINUTE", "SECOND", "TA">>,
   <<"YEAR", "MONTH", "DAY", "NTIME", "TA">>,
   <<"YEAR", "MONTH", "DAY", "HOUR", "MINUTE", "SECOND", "TA">>}

\* ... or columns of two representations, or not enough columns for any
MixedLayouts ==
  {<<"TIMESTAMP", "YEAR", "MONTH", "TA">>, <<"TIMESTAMP", "YEAR", "JDAY", "NTIME", "TA">>,
   <<"TIMESTAMP", "HOUR", "TA">>, <<"DATE", "TIME", "YEAR", "MONTH", "DAY", "HOUR", "TA">>,
   <<"DATE", "NTIME", "TA">>, <<"YEAR", "JDAY", "TA">>, <<"YEAR", "MONTH", "HOUR", "TA">>}

\* the token of a column of a row, from the name of the column
ReprToken(name, fields, decimal, k) ==
  CASE name = "TIMESTAMP" ->
         IF decimal
           THEN numToken(MJD0 + (DateYMD(fields[1], fields[2], fields[3], 0, 0, 0) \div DayLen))
           ELSE written(<<"Y", "Y", "Y", "Y", "-", "M", "M", "-", "D", "D", "T", "H", "H", "2", "4", ":", "M", "I", ":", "S", "S">>, fields)
    [] name = "DATE" -> written(<<"Y", "Y", "Y", "Y", "-", "M", "M", "-", "D", "D">>, fields)
    [] name = "TIME" -> written(<<"H", "H", "2", "4", ":", "M", "I", ":", "S", "S">>, fields)
    [] name = "YEAR" -> numToken(fields[1])
    [] name = "MONTH" -> numToken(fields[2])
    [] name = "DAY" -> numToken(fields[3])
    [] name = "JDAY" -> numToken(daysBeforeMonth(fields[1], fields[2]) + fields[3])
    [] name = "NTIME" -> numToken(fields[4] * 100 + fields[5])
    [] name = "HOUR" -> numToken(fields[4])
    [] name = "MINUTE" -> numToken(fields[5])
    [] name = "SECOND" -> numToken(fields[6])
    [] OTHER -> numToken(k)

ReprLine(layout, fields, decimal, k) ==
  [col \in 1..Len(layout) |-> ReprToken(layout[col], fields, decimal, k)]

\* a header line and the rows
ReprFile(layout, rows, decimal) ==
  << <<<<"h">>>> >> \o [k \in 1..Len(rows) |-> ReprLine(layout, ReprInstants[rows[k]], decimal, k)]

\* a decimal date is a whole number of days
WholeDays(rows) == \A k \in 1..Len(rows) : rows[k] \in {1, 3}

InitRepr ==
  /\ \E layout \in PureLayouts \cup MixedLayouts, rows \in ReprRows, decimal \in BOOLEAN :
       /\ decimal => "TIMESTAMP" \in {layout[col] : col \in 1..Len(layout)} /\ WholeDays(rows)
       /\ cfg = Configuration(BaseKeys(<<"s", "t", ".", "c", "s", "v">>, layout, 1)
                              @@ Key(decimal, "CSV_DECIMALDATE_TYPE", <<"M", "J", "U", "L", "I", "A", "N">>))
       /\ file = ReprFile(layout, rows, decimal)
  /\ csvparam = <<>>
  /\ indexer_map = <<>>
  /\ vecMeteo = <<>>
  /\ status = "init"
  /\ instants = FormatBounds
  /\ call = [n |-> 0, dateStart |-> 0, dateEnd |-> 0, reads |-> <<>>]
  /\ prev = [call |-> call, vecMeteo |-> vecMeteo, status |-> status]

SpecRepr == InitRepr /\ [][NextRead]_vars

(***************************************************************************)
(* Files with a line of column names, read with or without declared field  *)
(* names, and with or without a parameter name in the file name or in a    *)
(* header line.                                                            *)
(***************************************************************************)
\* the declarations of the columns, none included
NamesDeclared == {<<>>, <<"TIMESTAMP", "TA">>, <<"DATETIME", "RH">>, <<"TS", "SKIP">>}

\* the line of the column names of the file
NamesInFile ==
  {<<<<"t", "i", "m", "e", "s", "t", "a", "m", "p">>, <<"v", "a", "l">>>>, <<<<"v", "a", "l">>, <<"t", "i", "m", "e", "s", "t", "a", "m", "p">>>>, <<<<"T", "S">>, <<"H", "S">>>>, <<<<"I", "D">>, <<"D", "A", "T", "E", "T", "I", "M", "E">>>>}

\* a line of metadata, the line of the column names, the rows
NamesFile(names, rows) ==
  << <<<<"S", "1">>, <<"A", "l", "p", "h", "a">>, <<"R", "H">>>>, names >>
  \o [k \in 1..Len(rows) |->
        <<written(<<"Y", "Y", "Y", "Y", "-", "M", "M", "-", "D", "D", "T", "H", "H", "2", "4", ":", "M", "I", ":", "S", "S">>, FormatInstants[rows[k]]), numToken(k)>>]

InitNames ==
  /\ \E declared \in NamesDeclared, where \in {"station", "global", "both"},
        names \in NamesInFile, param \in {"none", "filename", "header"},
        withIndex \in BOOLEAN, rows \in FormatRows :
       /\ declared = <<>> => where = "station"
       /\ cfg = Configuration(
                  ("METEOPATH" :> <<"d">>) @@ ("STATION1" :> <<"H", "1", "_", "P", "r", "e", "c", ".", "c", "s", "v">>)
                  @@ ("POSITION1" :> <<46, 9, 1500>>)
                  @@ ("CSV_NR_HEADERS" :> 2) @@ ("CSV_COLUMNS_HEADERS" :> 2)
                  @@ (IF declared = <<>> THEN <<>>
                      ELSE Placed(where, "FIELDS", declared, <<"SKIP", "TIMESTAMP">>))
                  @@ Key(param = "filename", "CSV_FILENAME_SPEC", <<"{", "I", "D", "}", "_", "{", "P", "A", "R", "A", "M", "}">>)
                  @@ Key(param = "header", "CSV1_SPECIAL_HEADERS", << <<<<"P", "A", "R", "A", "M">>, <<"1">>, <<"3">>>> >>)
                  @@ Key(withIndex, "CSV_SINGLE_PARAM_INDEX", 2))
       /\ file = NamesFile(names, rows)
  /\ BeforeConstruction

SpecNames == InitNames /\ [][NextSetup]_vars

(***************************************************************************)
(* Files in which a marker line announces another copy of the header: the  *)
(* marker line may open the file, before the header, and marker lines,     *)
(* header lines and data rows follow the header in any order.  The k-th    *)
(* line after the header, when it is a data row, carries the timestamp of  *)
(* day k.  Every marker line is followed by at least header_lines lines.   *)
(***************************************************************************)
\* longest section after the header, in lines
MaxBody == 4

\* largest number of header lines
MaxHeader == 2

\* CSV_HEADER_REPEAT_MK
RepeatMk == <<"#">>

\* a line that holds the marker
RepeatMark == <<<<"#", "h">>>>

\* a line of the header
RepeatHead == <<<<"h">>>>

RepeatLine(k, kind) ==
  CASE kind = "row" -> <<dayToken(k), <<"5">>>>
    [] kind = "mark" -> RepeatMark
    [] kind = "head" -> RepeatHead

RepeatFile(atStart, hl, kinds) ==
  (IF atStart THEN <<RepeatMark>> ELSE <<>>)
    \o [k \in 1..hl |-> RepeatHead]
    \o [k \in 1..Len(kinds) |-> RepeatLine(k, kinds[k])]

InitRepeat ==
  \E atStart \in BOOLEAN, hl \in 1..MaxHeader, silent \in BOOLEAN,
     kinds \in SeqsUpTo({"row", "mark", "head"}, MaxBody) :
    /\ \A k \in 1..Len(kinds) : kinds[k] = "mark" => k + hl <= Len(kinds)
    /\ cfg = Config(silent, FALSE, TRUE)
    /\ file = RepeatFile(atStart, hl, kinds)
    /\ instants = {DateMJD(MJD0 + 1), DateMJD(MJD0 + MaxBody)}
    /\ csvparam = <<Station([CsvParameters(IdA, <<"TIMESTAMP", "TA">>, TRUE, NAN, hl)
                               EXCEPT !.header_repeat_mk = RepeatMk],
                            RepeatFile(atStart, hl, kinds))>>
    /\ StartState

SpecRepeat == InitRepeat /\ [][Next]_vars

(***************************************************************************)
(* Files whose declared columns cover every role that parseFields knows,   *)
(* under every name of the role, with measurement columns around them.     *)
(***************************************************************************)
RoleLayouts ==
  {<<"ID", "TIMESTAMP", "SKIP", "TA", "RH">>, <<"TS", "TA", "STATIONID">>,
   <<"DATETIME", "SKIP", "SKIP", "TA">>, <<"TIMESTAMP", "SKIP">>,
   <<"DATE", "TIME", "TA", "TA">>, <<"GIORNO", "ORA", "TA">>, <<"FECHA", "HORA", "RH", "SKIP">>,
   <<"YEAR", "JDAY", "NTIME", "TA">>, <<"YEAR", "JDN", "HOURS", "MINUTES", "SECONDS", "TA">>,
   <<"YEAR", "YDAY", "HOUR", "TA">>, <<"YEAR", "DAY_OF_YEAR", "NTIME", "ID", "TA">>,
   <<"YEAR", "DOY", "NTIME", "TA">>,
   <<"YEAR", "MONTH", "DAY", "HOUR", "MINUTE", "SECOND", "TA", "SKIP", "RH">>,
   <<"TA", "YEAR", "MONTH", "DAY", "HOURS", "RH">>, <<"TIMESTAMP", "HOUR", "TA">>}

\* the name under which the tokens of a column are written
RoleWritten(name) ==
  CASE name \in {"TS", "DATETIME"} -> "TIMESTAMP"
    [] name \in {"GIORNO", "FECHA"} -> "DATE"
    [] name \in {"ORA", "HORA"} -> "TIME"
    [] name \in {"JDN", "YDAY", "DAY_OF_YEAR", "DOY"} -> "JDAY"
    [] name = "HOURS" -> "HOUR"
    [] name = "MINUTES" -> "MINUTE"
    [] name = "SECONDS" -> "SECOND"
    [] OTHER -> name

\* the token of a column of row k: the rows of an ID column belong to the
\* stations A and B in turn
RoleToken(name, fields, decimal, k) ==
  IF name \in {"ID", "STATIONID"} THEN (IF k % 2 = 1 THEN IdA ELSE IdB)
  ELSE ReprToken(RoleWritten(name), fields, decimal, k)

RoleFile(layout, rows, decimal) ==
  << <<<<"h">>>> >> \o [k \in 1..Len(rows) |->
                      [col \in 1..Len(layout) |->
                         RoleToken(layout[col], ReprInstants[rows[k]], decimal, k)]]

InitRoles ==
  /\ \E layout \in RoleLayouts, rows \in ReprRows, decimal \in BOOLEAN :
       /\ decimal => /\ layout[1] \in {"TIMESTAMP", "TS", "DATETIME"} \/ layout[2] = "TIMESTAMP"
                     /\ WholeDays(rows)
       /\ cfg = Configuration(BaseKeys(<<"s", "t", ".", "c", "s", "v">>, layout, 1) @@ ("CSV1_ID" :> IdA)
                              @@ Key(decimal, "CSV_DECIMALDATE_TYPE", <<"M", "J", "U", "L", "I", "A", "N">>))
       /\ file = RoleFile(layout, rows, decimal)
  /\ csvparam = <<>>
  /\ indexer_map = <<>>
  /\ vecMeteo = <<>>
  /\ status = "init"
  /\ instants = FormatBounds
  /\ call = [n |-> 0, dateStart |-> 0, dateEnd |-> 0, reads |-> <<>>]
  /\ prev = [call |-> call, vecMeteo |-> vecMeteo, status |-> status]

SpecRoles == InitRoles /\ [][NextRead]_vars

(***************************************************************************)
(* Properties of the station metadata.                                     *)
(***************************************************************************)
\* the descriptor the constructor built
theStation == csvparam[1]

thePath == cfg.keys["METEOPATH"] \o <<"/">> \o cfg.keys["STATION1"]

theBaseName == removeExtension(getFilename(thePath))

\* the descriptor with neither ID nor NAME configured
Unnamed == [tmp_csv(cfg, "1") EXCEPT !.id = <<>>, !.name = <<>>]

\* what each source provides on its own: the configuration, the header
\* coordinates, the file name pattern
Configured(X) == getValue(cfg, "1", X, <<>>)

FromHeaders ==
  readSpecialHeaders(Unnamed, file, 1,
                     parseHeadersSpecs(getValue(cfg, "1", "SPECIAL_HEADERS", <<>>)).meta_spec)

FromFileName == fileNameMetadata(Unnamed, thePath, getValue(cfg, "1", "FILENAME_SPEC", <<>>))

\* the first value of a list of candidates that is not empty
RECURSIVE FirstProvided(_)
FirstProvided(candidates) ==
  IF Len(candidates) = 1 \/ Head(candidates) # <<>> THEN Head(candidates)
  ELSE FirstProvided(Tail(candidates))

\* C11: the station ID and the station name are each the value of the first
\* source that provides one, in the order configuration (CSV#_ID, CSV#_NAME),
\* header coordinates, file name pattern, fallback (the file name without
\* extension for the name, "ID" + index for the id); so a header value wins
\* over a file name value
C11_IdentityByPriority ==
  status = "ok" =>
    /\ theStation.id = FirstProvided(<<Configured("ID"), FromHeaders.id, FromFileName.id,
                                       <<"I", "D", "1">>>>)
    /\ theStation.name = FirstProvided(<<Configured("NAME"), FromHeaders.name,
                                         FromFileName.name, theBaseName>>)

\* the header coordinates of the special-headers specification, in
\* specification order, and those of one field type
theHeaderSpecs == parseHeadersSpecs(getValue(cfg, "1", "SPECIAL_HEADERS", <<>>)).meta_spec

HeaderEntries(field_type) ==
  SelectSeq(theHeaderSpecs, LAMBDA e : strToUpper(e.field_type) = field_type)

\* the value at a header coordinate, quotes removed
HeaderValue(e) == removeQuotes(file[e.linenr][e.colnr])

\* the values at the coordinates, joined by the separator
RECURSIVE Joined(_)
Joined(entries) ==
  IF Len(entries) = 1 THEN HeaderValue(Head(entries))
  ELSE HeaderValue(Head(entries)) \o <<"-">> \o Joined(Tail(entries))

\* the entry of a field type that is read last: on the last line, and the
\* last of its line in the specification
LastRead(entries) ==
  entries[CHOOSE i \in 1..Len(entries) :
            \A j \in 1..Len(entries) :
              \/ entries[j].linenr < entries[i].linenr
              \/ entries[j].linenr = entries[i].linenr /\ j <= i]

\* neither the configuration nor the file name provides the value
OnlyHeaders(X) ==
  /\ status = "ok"
  /\ Configured(X) = <<>>
  /\ getValue(cfg, "1", "FILENAME_SPEC", <<>>) = <<>>

\* C12: an ID (or NAME) that appears at several header coordinates, on the
\* same or on different header lines, is the concatenation of all the values
\* joined by "-", in specification order; a NODATA that appears at several
\* coordinates keeps the last value read
C12_HeaderValuesAppended ==
  /\ OnlyHeaders("ID") /\ HeaderEntries(<<"I", "D">>) # <<>> =>
       theStation.id = Joined(HeaderEntries(<<"I", "D">>))
  /\ OnlyHeaders("NAME") /\ HeaderEntries(<<"N", "A", "M", "E">>) # <<>> =>
       theStation.name = Joined(HeaderEntries(<<"N", "A", "M", "E">>))
  /\ status = "ok" /\ HeaderEntries(<<"N", "O", "D", "A", "T", "A">>) # <<>> =>
       theStation.nodata = HeaderValue(LastRead(HeaderEntries(<<"N", "O", "D", "A", "T", "A">>)))

\* the file name pattern of the station and its literal segments: before
\* the first placeholder, between two placeholders, after the last one
thePattern == getValue(cfg, "1", "FILENAME_SPEC", <<>>)

LeadingLiteral(pattern) == SubSeq(pattern, 1, (CHOOSE i \in 1..Len(pattern) :
                              pattern[i] = "{" /\ \A j \in 1..(i - 1) : pattern[j] # "{") - 1)

TrailingLiteral(pattern) == SubSeq(pattern, (CHOOSE i \in 1..Len(pattern) :
                              pattern[i] = "}" /\ \A j \in (i + 1)..Len(pattern) : pattern[j] # "}") + 1,
                              Len(pattern))

InnerLiterals(pattern) ==
  {SubSeq(pattern, i + 1, j - 1) : <<i, j>> \in
     {<<i, j>> \in (1..Len(pattern)) \X (1..Len(pattern)) :
        /\ i < j /\ pattern[i] = "}" /\ pattern[j] = "{"
        /\ \A k \in (i + 1)..(j - 1) : pattern[k] \notin {"{", "}"}}}

IsPrefix(s, t) == Len(s) <= Len(t) /\ SubSeq(t, 1, Len(s)) = s

IsSuffix(s, t) == Len(s) <= Len(t) /\ SubSeq(t, Len(t) - Len(s) + 1, Len(t)) = s

Occurs(s, t) == \E i \in 0..(Len(t) - Len(s)) : SubSeq(t, i + 1, i + Len(s)) = s

\* C13: the constructor fails whenever a literal segment of the file name
\* pattern does not occur at its place in the file name without extension:
\* a leading literal that is not its prefix, a literal between two
\* placeholders that does not occur in it, a literal after the last
\* placeholder that is not its suffix
C13_UnmatchedLiteralIsFatal ==
  /\ status # "init"
  /\ thePattern # <<>>
  /\ \/ ~IsPrefix(LeadingLiteral(thePattern), theBaseName)
     \/ \E literal \in InnerLiterals(thePattern) : ~Occurs(literal, theBaseName)
     \/ ~IsSuffix(TrailingLiteral(thePattern), theBaseName)
  => status = "exception"

\* the placeholders of a pattern that starts with one, each with the text it
\* stands for: up to the next occurrence of the literal that follows it, or
\* to the end of the text for the last one
FirstIndex(s, c) == CHOOSE i \in 1..Len(s) : s[i] = c /\ \A j \in 1..(i - 1) : s[j] # c

FirstOccurrence(s, t) ==
  CHOOSE i \in 1..(Len(t) - Len(s) + 1) :
    /\ SubSeq(t, i, i + Len(s) - 1) = s
    /\ \A j \in 1..(i - 1) : SubSeq(t, j, j + Len(s) - 1) # s

RECURSIVE Placeholders(_, _)
PlaceholderBefore(type, rest, text) ==
  IF ~Occurs(<<"{">>, rest) THEN <<[type |-> type, value |-> text]>>
  ELSE <<[type |-> type,
          value |-> SubSeq(text, 1, FirstOccurrence(LeadingLiteral(rest), text) - 1)]>>
       \o Placeholders(SubSeq(rest, FirstIndex(rest, "{"), Len(rest)),
                       SubSeq(text, FirstOccurrence(LeadingLiteral(rest), text)
                                    + Len(LeadingLiteral(rest)), Len(text)))

Placeholders(pattern, text) ==
  PlaceholderBefore(strToUpper(SubSeq(pattern, 2, FirstIndex(pattern, "}") - 1)),
                    SubSeq(pattern, FirstIndex(pattern, "}") + 1, Len(pattern)), text)

\* the file name matches the pattern: the leading literal is its prefix and
\* the literals between the placeholders follow each other in it
thePlaceholders ==
  Placeholders(SubSeq(thePattern, Len(LeadingLiteral(thePattern)) + 1, Len(thePattern)),
               SubSeq(theBaseName, Len(LeadingLiteral(thePattern)) + 1, Len(theBaseName)))

ValuesOf(type) == SelectSeq(thePlaceholders, LAMBDA v : v.type = type)

RECURSIVE JoinedValues(_)
JoinedValues(values) ==
  IF Len(values) = 1 THEN Head(values).value
  ELSE Head(values).value \o <<"-">> \o JoinedValues(Tail(values))

\* C14: for a file name that matches the pattern, a placeholder stands for
\* the text from the end of the literal before it to the next occurrence of
\* the literal after it, the last placeholder for the text up to the end of
\* the name; the ID and NAME texts become the id and the name, a SKIP text is
\* discarded and the PARAM text, in upper case and canonicalised, becomes the
\* parameter: "{ID}_{NAME}-{SKIP}_-_{PARAM}" on
\* "H0118_Generoso-Calmasino_-_Precipitation" gives H0118, Generoso and PSUM
C14_PlaceholderValues ==
  status = "ok" /\ thePattern # <<>> =>
    /\ Configured("ID") = <<>> /\ ValuesOf(<<"I", "D">>) # <<>> =>
         theStation.id = JoinedValues(ValuesOf(<<"I", "D">>))
    /\ Configured("NAME") = <<>> /\ ValuesOf(<<"N", "A", "M", "E">>) # <<>> =>
         theStation.name = JoinedValues(ValuesOf(<<"N", "A", "M", "E">>))
    /\ HeaderEntries(<<"P", "A", "R", "A", "M">>) = <<>> /\ ValuesOf(<<"P", "A", "R", "A", "M">>) # <<>> =>
         theStation.single_field
           = paramName(strToUpper(ValuesOf(<<"P", "A", "R", "A", "M">>)[Len(ValuesOf(<<"P", "A", "R", "A", "M">>))].value))
    /\ /\ thePattern = <<"{", "I", "D", "}", "_", "{", "N", "A", "M", "E", "}", "-", "{", "S", "K", "I", "P", "}", "_", "-", "_", "{", "P", "A", "R", "A", "M", "}">>
       /\ theBaseName = <<"H", "0", "1", "1", "8", "_", "G", "e", "n", "e", "r", "o", "s", "o", "-", "C", "a", "l", "m", "a", "s", "i", "n", "o", "_", "-", "_", "P", "r", "e", "c", "i", "p", "i", "t", "a", "t", "i", "o", "n">>
       /\ Configured("ID") = <<>> /\ Configured("NAME") = <<>>
       /\ HeaderEntries(<<"P", "A", "R", "A", "M">>) = <<>>
       => /\ theStation.id = <<"H", "0", "1", "1", "8">>
          /\ theStation.name = <<"G", "e", "n", "e", "r", "o", "s", "o">>
          /\ theStation.single_field = <<"P", "S", "U", "M">>

\* the example of the documentation was parsed
C14_Witness ==
  /\ status = "ok"
  /\ thePattern = <<"{", "I", "D", "}", "_", "{", "N", "A", "M", "E", "}", "-", "{", "S", "K", "I", "P", "}", "_", "-", "_", "{", "P", "A", "R", "A", "M", "}">>
  /\ theBaseName = <<"H", "0", "1", "1", "8", "_", "G", "e", "n", "e", "r", "o", "s", "o", "-", "C", "a", "l", "m", "a", "s", "i", "n", "o", "_", "-", "_", "P", "r", "e", "c", "i", "p", "i", "t", "a", "t", "i", "o", "n">>
  /\ theStation.id = <<"H", "0", "1", "1", "8">>
  /\ theStation.single_field = <<"P", "S", "U", "M">>

(***************************************************************************)
(* C15: every date/time pattern accepted by setDateTimeSpec or setTimeSpec *)
(* yields a scan template whose number of '%' placeholders equals the      *)
(* number of entries of the field-order list, plus one if TZ is present in *)
(* the pattern; a pattern in which a token occurs twice, a pattern with a  *)
(* literal '%' and a pattern whose TZ is not at the very end are rejected  *)
(* with an error.                                                          *)
(***************************************************************************)
\* a column of this name is declared in the configuration
Declared(name) == \E k \in DOMAIN cfg.keys["CSV_FIELDS"] : cfg.keys["CSV_FIELDS"][k] = name

\* the patterns handed to setDateTimeSpec and to setTimeSpec, from the keys or the defaults
theDatePattern ==
  IF dateSpecs(cfg, "1").datetime_spec # <<>> THEN dateSpecs(cfg, "1").datetime_spec
  ELSE IF dateSpecs(cfg, "1").date_spec # <<>> THEN dateSpecs(cfg, "1").date_spec
  ELSE IF Declared("TIMESTAMP") THEN <<"Y", "Y", "Y", "Y", "-", "M", "M", "-", "D", "D", "T", "H", "H", "2", "4", ":", "M", "I", ":", "S", "S">>
  ELSE <<"Y", "Y", "Y", "Y", "-", "M", "M", "-", "D", "D">>

theTimePattern ==
  IF dateSpecs(cfg, "1").datetime_spec # <<>> THEN <<>>
  ELSE IF dateSpecs(cfg, "1").time_spec # <<>> THEN dateSpecs(cfg, "1").time_spec
  ELSE IF Declared("TIME") THEN <<"H", "H", "2", "4", ":", "M", "I", ":", "S", "S">>
  ELSE <<>>

Percents(template) == Cardinality({k \in 1..Len(template) : template[k] = "%"})

HasTZ(pattern) == \E k \in 1..(Len(pattern) - 1) : pattern[k] = "T" /\ pattern[k + 1] = "Z"

TZAtTheEnd(pattern) ==
  \A k \in 1..(Len(pattern) - 1) : pattern[k] = "T" /\ pattern[k + 1] = "Z" => k = Len(pattern) - 1

\* the number of places of the pattern where the token stands
Places(pattern, token) ==
  Cardinality({k \in 1..(Len(pattern) - Len(token) + 1) :
                 SubSeq(pattern, k, k + Len(token) - 1) = token})

TokenTwice(pattern, tokens) == \E k \in 1..Len(tokens) : Places(pattern, tokens[k]) >= 2

LiteralPercent(pattern) == \E k \in 1..Len(pattern) : pattern[k] = "%"

Holds(pattern, token) == Places(pattern, token) >= 1

\* the field of an instant when its token is in one of the patterns, else zero
FieldRead(fields, k) ==
  IF Holds(theDatePattern, DateTimeKeys[k]) \/ Holds(theTimePattern, DateTimeKeys[k])
    THEN fields[k] ELSE 0

\* the zone written in the strings, in seconds east of GMT
ZoneRead == IF HasTZ(theDatePattern) \/ HasTZ(theTimePattern) THEN 60 * 60 ELSE 0

\* the instants that the rows of the file carry, as the patterns show them
writtenDates ==
  [k \in 1..(Len(file) - 1) |->
     CHOOSE fields \in {FormatInstants[i] : i \in 1..Len(FormatInstants)} :
       file[k + 1][1] = written(theDatePattern, fields)]

\* the timestamp of the fields that the patterns hold; none without a month or a day
FieldsDates ==
  [k \in 1..(Len(file) - 1) |->
     IF FieldRead(writtenDates[k], 2) = 0 \/ FieldRead(writtenDates[k], 3) = 0 THEN <<>>
     ELSE <<DateYMD(FieldRead(writtenDates[k], 1), FieldRead(writtenDates[k], 2),
                    FieldRead(writtenDates[k], 3), FieldRead(writtenDates[k], 4),
                    FieldRead(writtenDates[k], 5), FieldRead(writtenDates[k], 6)) - ZoneRead>>]

\* a read of the whole file has returned
WholeFileRead ==
  /\ call.n > 0
  /\ \A t \in instants : call.dateStart <= t /\ t <= call.dateEnd

\* every row gave a record with the timestamp of its fields
RowsResolved ==
  /\ status = "ok"
  /\ Len(vecMeteo[1]) = Len(file) - 1
  /\ \A k \in 1..Len(vecMeteo[1]) : <<vecMeteo[1][k].date>> = FieldsDates[k]

DateComplete(pattern) ==
  Holds(pattern, <<"Y", "Y", "Y", "Y">>) /\ Holds(pattern, <<"M", "M">>) /\ Holds(pattern, <<"D", "D">>)

SecondsLast(pattern) ==
  Holds(pattern, <<"S", "S">>) => SubSeq(pattern, Len(pattern) - 1, Len(pattern)) = <<"S", "S">>

theLayout == cfg.keys["CSV_FIELDS"]

theDecimal == "CSV_DECIMALDATE_TYPE" \in DOMAIN cfg.keys

\* the instant that a row of the file carries
reprInstant(k) ==
  CHOOSE fields \in {ReprInstants[i] : i \in 1..Len(ReprInstants)} :
    file[k + 1] = ReprLine(theLayout, fields, theDecimal, k)

\* the timestamp of an instant, whatever the representation
InstantDate(fields) ==
  DateYMD(fields[1], fields[2], fields[3], fields[4], fields[5], fields[6])

C17_RepresentationsAgree ==
  WholeFileRead /\ theLayout \in PureLayouts =>
    /\ status = "ok"
    /\ Len(vecMeteo[1]) = Len(file) - 1
    /\ \A k \in 1..Len(vecMeteo[1]) : vecMeteo[1][k].date = InstantDate(reprInstant(k))

(***************************************************************************)
(* C18: in every layout descriptor that setFile builds without error, at   *)
(* most one of the date representations (string date, split components,    *)
(* decimal date) is active: no accepted combination of column names and of *)
(* the DECIMALDATE_TYPE setting leaves two of them set.                    *)
(***************************************************************************)
StringsSet(dc) == dc.date_str # 0 \/ dc.time_str # 0

ComponentsSet(dc) ==
  \/ dc.year # 0 \/ dc.jdn # 0 \/ dc.month # 0 \/ dc.day # 0
  \/ dc.time # 0 \/ dc.hours # 0 \/ dc.minutes # 0 \/ dc.seconds # 0

DecimalSet(dc) == dc.decimal_date # 0

RepresentationsSet(dc) ==
  {r \in {"strings", "components", "decimal"} :
     \/ r = "strings" /\ StringsSet(dc)
     \/ r = "components" /\ ComponentsSet(dc)
     \/ r = "decimal" /\ DecimalSet(dc)}

C18_OneRepresentation ==
  status = "ok" /\ call.n = 0 => Cardinality(RepresentationsSet(csvparam[1].date_cols)) <= 1

(***************************************************************************)
(* C19: when field names are declared in the configuration (CSV#_FIELDS),  *)
(* the column names and column roles of the descriptor come only from that *)
(* declaration: the names on the column-header line of the file are        *)
(* ignored and a PARAM value extracted from the filename or the headers    *)
(* renames no column.                                                      *)
(***************************************************************************)
\* the declaration for the station, else the one for all the stations
theDeclaration ==
  IF "CSV1_FIELDS" \in DOMAIN cfg.keys THEN cfg.keys["CSV1_FIELDS"]
  ELSE IF "CSV_FIELDS" \in DOMAIN cfg.keys THEN cfg.keys["CSV_FIELDS"]
  ELSE <<>>

\* the columns that a declaration names as the date and time string
TimestampColumns(declared) ==
  {ii \in 1..Len(declared) : declared[ii] \in {"TIMESTAMP", "TS", "DATETIME"}}

\* the columns that a declaration names as special
SpecialColumns(declared) ==
  {ii \in 1..Len(declared) : declared[ii] \in {"TIMESTAMP", "TS", "DATETIME", "SKIP"}}

C19_DeclaredNamesOnly ==
  status = "ok" /\ theDeclaration # <<>> =>
    /\ csvparam[1].csv_fields = theDeclaration
    /\ TimestampColumns(theDeclaration) = {csvparam[1].date_cols.date_str}
    /\ csvparam[1].date_cols.time_str = csvparam[1].date_cols.date_str
    /\ csvparam[1].skip_fields = SpecialColumns(theDeclaration)
    /\ csvparam[1].ID_col = 0

\* declared names, other names in the file and a parameter name from the file name
C19_Witness ==
  /\ status = "ok" /\ theDeclaration = <<"DATETIME", "RH">>
  /\ file[2] = <<<<"I", "D">>, <<"D", "A", "T", "E", "T", "I", "M", "E">>>>
  /\ csvparam[1].single_field # <<>>
  /\ "CSV_FILENAME_SPEC" \in DOMAIN cfg.keys

(***************************************************************************)
(* C20: each configuration key is resolved independently for a station:    *)
(* the station-specific key CSVn_X is used when it exists, otherwise the   *)
(* global key CSV_X, otherwise the default; this holds key by key, so a    *)
(* station-specific CSVn_DATE_SPEC can be combined with a global           *)
(* CSV_TIME_SPEC (and likewise for DATETIME_SPEC and DECIMALDATE_TYPE).    *)
(***************************************************************************)
Resolved(X, default) ==
  IF ("CSV1_" \o X) \in DOMAIN cfg.keys THEN cfg.keys["CSV1_" \o X]
  ELSE IF ("CSV_" \o X) \in DOMAIN cfg.keys THEN cfg.keys["CSV_" \o X]
  ELSE default

WellFormed(pattern, tokens) ==
  ~TokenTwice(pattern, tokens) /\ ~LiteralPercent(pattern) /\ TZAtTheEnd(pattern)

\* the date and time keys, each resolved on its own, can be used together
UsableTogether ==
  /\ WellFormed(Resolved("DATETIME_SPEC", <<>>), DateTimeKeys)
  /\ WellFormed(Resolved("DATE_SPEC", <<>>), DateTimeKeys)
  /\ WellFormed(Resolved("TIME_SPEC", <<>>), TimeKeys)
  /\ Resolved("DATETIME_SPEC", <<>>) # <<>>
       => Resolved("DATE_SPEC", <<>>) = <<>> /\ Resolved("TIME_SPEC", <<>>) = <<>>
  /\ Resolved("DATE_SPEC", <<>>) # <<>> <=> Resolved("TIME_SPEC", <<>>) # <<>>

C20_KeyByKey ==
  status # "init" /\ call.n = 0 =>
    /\ UsableTogether => status = "ok"
    /\ status = "ok" =>
         /\ Resolved("NAME", <<>>) # <<>> => csvparam[1].name = Resolved("NAME", <<>>)
         /\ csvparam[1].nodata = Resolved("NODATA", NAN)
         /\ csvparam[1].csv_fields = Resolved("FIELDS", <<>>)
         /\ Resolved("DATETIME_SPEC", <<>>) # <<>> =>
              csvparam[1].datetime_format = dateTimeTemplate(Resolved("DATETIME_SPEC", <<>>))
         /\ Resolved("DATE_SPEC", <<>>) # <<>> =>
              csvparam[1].datetime_format = dateTimeTemplate(Resolved("DATE_SPEC", <<>>))
         /\ Resolved("TIME_SPEC", <<>>) # <<>> =>
              csvparam[1].time_format = timeTemplate(Resolved("TIME_SPEC", <<>>))

(***************************************************************************)
(* Notions for the order of the rows of a file and of the records.         *)
(***************************************************************************)
StrictlyDecreasing(ts) == \A k \in 1..Len(ts) - 1 : ts[k] > ts[k + 1]

(***************************************************************************)
(* C21: for a file whose rows are strictly monotonic in time, ascending or *)
(* descending, the records returned by a read are in strictly ascending    *)
(* timestamp order.                                                        *)
(***************************************************************************)
C21_MonotonicFileReadAscending ==
  \A i \in 1..Len(csvparam) :
    (Returned(i) /\ (StrictlyIncreasing(fileTimes) \/ StrictlyDecreasing(fileTimes)))
      => StrictlyIncreasing(datesOf(vecMeteo[i]))

(***************************************************************************)
(* C22: a read adds an entry to the position index of a file only when the *)
(* file was classified as ascending: the index of a file classified as     *)
(* descending is empty after any sequence of reads.                        *)
(***************************************************************************)
C22_DescendingFileNotIndexed ==
  (\A i \in 1..Len(csvparam) : ~csvparam[i].asc_order) => indexer_map = <<>>

(***************************************************************************)
(* Notions for the end of a scan, on the files with a decimal timestamp.   *)
(***************************************************************************)
\* line k is a row of station i: no ID column, or the ID of the station
RowOf(i, k) == csvparam[i].ID_col = 0 \/ file[k][csvparam[i].ID_col] = csvparam[i].id

\* line k is a row of station i beyond the boundary of the last request, in
\* the order the file of the station was classified in
BeyondBoundary(i, k) ==
  /\ RowOf(i, k)
  /\ IF csvparam[i].asc_order THEN LineTime(k) > call.dateEnd ELSE LineTime(k) < call.dateStart

\* the lines from which the last read of station i could stop
StopLines(i) == {k \in (call.reads[i].from + 1)..Len(file) : BeyondBoundary(i, k)}

\* the line the last read of station i ended on
EndOfRead(i) ==
  IF StopLines(i) = {} THEN Len(file)
  ELSE CHOOSE k \in StopLines(i) : \A j \in StopLines(i) : k <= j

(***************************************************************************)
(* C23: for a file classified as ascending, a read stops at the first row  *)
(* whose timestamp is after dateEnd; for a file classified as descending,  *)
(* the scan never stops early and reads every row up to the end of file.   *)
(***************************************************************************)
C23_DescendingScanReachesEnd ==
  \A i \in 1..Len(csvparam) :
    Returned(i) =>
      call.reads[i].to = IF csvparam[i].asc_order THEN EndOfRead(i) ELSE Len(file)

(***************************************************************************)
(* C23, amended: a read stops at the first row of the station that lies    *)
(* beyond the boundary of the request: after dateEnd for a file classified *)
(* as ascending, before dateStart for a file classified as descending; it  *)
(* reads to the end of the file when there is no such row.                 *)
(***************************************************************************)
C23_ScanStopsBeyondBoundary ==
  \A i \in 1..Len(csvparam) : Returned(i) => call.reads[i].to = EndOfRead(i)

\* a strictly descending file, classified as descending, whose read stopped
\* before the last line and returned a record
C23_Witness ==
  \E i \in 1..Len(csvparam) :
    /\ Returned(i) /\ ~csvparam[i].asc_order /\ StrictlyDecreasing(fileTimes)
    /\ call.reads[i].to < Len(file)
    /\ vecMeteo[i] # <<>>

(***************************************************************************)
(* Notions for the order decision, on the files with a decimal timestamp.  *)
(***************************************************************************)
\* the data rows that the probe compares with the row before them: the first
\* data row only fixes the fields, the second is the first to carry a date
Compared == 3..Len(fileTimes)

RisingTransitions == Cardinality({k \in Compared : fileTimes[k] > fileTimes[k - 1]})

OtherTransitions == Cardinality({k \in Compared : ~(fileTimes[k] > fileTimes[k - 1])})

(***************************************************************************)
(* C24: the ascending/descending flag of a descriptor is decided once, by  *)
(* setFile, descending exactly when the probe counted more descending than *)
(* ascending transitions, and no later read changes it: in every state,    *)
(* before and after any reads, the flag is the one the probe decided.      *)
(***************************************************************************)
C24_OrderDecidedOnce ==
  \A i \in 1..Len(csvparam) :
    csvparam[i].asc_order = ~(OtherTransitions > RisingTransitions)

\* after the last call, a file classified as descending on one transition,
\* whose read returned records
C24_Witness ==
  /\ call.n = MaxCalls /\ prev.call.n > 0
  /\ ~csvparam[1].asc_order /\ OtherTransitions = 1 /\ RisingTransitions = 0
  /\ Returned(1) /\ vecMeteo[1] # <<>>

(***************************************************************************)
(* C26: for an ascending file with strictly increasing timestamps, every   *)
(* entry (t, offset) of the position index is such that every data row     *)
(* that begins before offset has a timestamp strictly less than t.         *)
(***************************************************************************)
C26_IndexedOffsetAfterEarlierRowsOnly ==
  (csvparam[1].asc_order /\ StrictlyIncreasing(fileTimes)) =>
    \A e \in 1..Len(indexer_map) :
      \A k \in (csvparam[1].header_lines + 1)..indexer_map[e].pos :
        LineTime(k) < indexer_map[e].date

(***************************************************************************)
(* C27: setFile classifies as ascending every file whose timestamps are    *)
(* non-decreasing, a file in which consecutive rows carry the same         *)
(* timestamp included.                                                     *)
(***************************************************************************)
C27_NonDecreasingFileAscending ==
  NonDecreasing(fileTimes) => \A i \in 1..Len(csvparam) : csvparam[i].asc_order

(***************************************************************************)
(* Notions for the files with repeated headers.                            *)
(***************************************************************************)
\* line k holds the marker
MarkerAt(k) == \E ii \in 1..Len(file[k]) : find(file[k][ii], csvparam[1].header_repeat_mk, 0) # npos

\* the first line of the data section: after the header, and after the
\* marker line when one opens the file
FirstDataLine == csvparam[1].header_lines + 1 + (IF MarkerAt(1) THEN 1 ELSE 0)

\* the lines of the repeated headers from line k on: a marker line and the
\* header_lines lines after it, then the next marker line after those
RECURSIVE RepeatedFrom(_)
RepeatedFrom(k) ==
  IF k > Len(file) THEN {}
  ELSE IF MarkerAt(k)
    THEN (k..(k + csvparam[1].header_lines)) \cup RepeatedFrom(k + csvparam[1].header_lines + 1)
  ELSE RepeatedFrom(k + 1)

\* the lines of the repeated headers of the data section
Repeated == RepeatedFrom(FirstDataLine)

\* line k has the tokens of a data row
RowAt(k) == k \in 1..Len(file) /\ Len(file[k]) = Len(csvparam[1].csv_fields)

\* the data row on line k is in the last requested range and was returned
RowReturned(k) == (RowAt(k) /\ InRange(LineTime(k)) /\ ~theRead.thrown) => HasRecord(LineTime(k))

(***************************************************************************)
(* C25: when a line of the data section holds the header-repeat marker, a  *)
(* read skips that line and the next header_lines lines: none of them      *)
(* produces a record or an error, and the first line after them is         *)
(* processed as a normal data row.  Stated for the reads that start from   *)
(* the beginning of the file.                                              *)
(***************************************************************************)
C25_RepeatedHeaderSkipped ==
  (call.n > 0 /\ ~theRead.seek) =>
    \A k \in Repeated :
      /\ RowAt(k) => ~HasRecord(LineTime(k))
      /\ ~(theRead.thrown /\ theRead.to = k)
      /\ (k + 1 \notin Repeated) => RowReturned(k + 1)

(***************************************************************************)
(* C28: a read that starts from the beginning of the file skips exactly    *)
(* the header: when the marker occurs for the first time after the header  *)
(* lines, the read skips header_lines lines and returns the first data row *)
(* when it lies in the requested range.                                    *)
(***************************************************************************)
C28_OnlyHeaderSkipped ==
  (/\ call.n > 0 /\ ~theRead.seek
   /\ \E k \in 1..Len(file) : MarkerAt(k)
   /\ \A k \in 1..csvparam[1].header_lines : ~MarkerAt(k))
    => /\ theRead.from = csvparam[1].header_lines
       /\ ~MarkerAt(FirstDataLine) => RowReturned(FirstDataLine)

(***************************************************************************)
(* Notions for the station-ID filter, on the files with malformed rows.    *)
(***************************************************************************)
\* line k is too short to hold the ID column
NoIDToken(k) == Len(file[k]) < csvparam[1].ID_col

\* line k holds the ID of another station
OtherStation(k) == ~NoIDToken(k) /\ file[k][csvparam[1].ID_col] # csvparam[1].id

\* the last read aborted on line k
AbortedOn(k) == theRead.thrown /\ theRead.to = k

SpecialNames ==
  {"TIMESTAMP", "TS", "DATETIME", "DATE", "GIORNO", "FECHA", "TIME", "ORA", "HORA", "SKIP",
   "YEAR", "JDAY", "JDN", "YDAY", "DAY_OF_YEAR", "DOY", "MONTH", "DAY", "NTIME", "HOUR", "HOURS",
   "MINUTE", "MINUTES", "SECOND", "SECONDS", "ID", "STATIONID"}

\* the columns of station i outside its skip set
StoredColumns(i) == (1..Len(csvparam[i].csv_fields)) \ csvparam[i].skip_fields

(***************************************************************************)
(* C30: every column with a special role (timestamp, date, time, year,     *)
(* julian day, month, day, NTIME, hour, minute, second, station ID, SKIP)  *)
(* is in the skip set of the descriptor, and the fields of every returned  *)
(* record are exactly the names of the columns outside the skip set: no    *)
(* special column is stored as a measurement field.                        *)
(***************************************************************************)
C30_SpecialColumnsNeverStored ==
  /\ \A i \in 1..Len(csvparam) :
       \A ii \in 1..Len(csvparam[i].csv_fields) :
         csvparam[i].csv_fields[ii] \in SpecialNames => ii \in csvparam[i].skip_fields
  /\ \A i \in 1..Len(vecMeteo) :
       \A r \in 1..Len(vecMeteo[i]) :
         /\ DOMAIN vecMeteo[i][r].fields = {csvparam[i].csv_fields[ii] : ii \in StoredColumns(i)}
         /\ DOMAIN vecMeteo[i][r].fields \cap SpecialNames = {}

\* a record of a file with an ID column, a timestamp column and a skipped
\* column: its fields are the two measurement columns
C30_Witness ==
  /\ call.n > 0 /\ Len(vecMeteo) = 1 /\ vecMeteo[1] # <<>>
  /\ csvparam[1].csv_fields = <<"ID", "TIMESTAMP", "SKIP", "TA", "RH">>
  /\ csvparam[1].skip_fields = {1, 2, 3}
  /\ DOMAIN vecMeteo[1][1].fields = {"TA", "RH"}

====
